---- MODULE Spec2Model ----
(***************************************************************************)
(* Conway's Game of Life on a sparse unbounded grid (Ilay-dev/GoL).        *)
(* The model follows src/script.js: the string-key engine, its brush and   *)
(* stroke rasterizer, its viewport arithmetic and its event handlers.      *)
(***************************************************************************)
EXTENDS Integers, Sequences, FiniteSets, TLC

VARIABLES
    liveCells,        \* script.js:34   Set of string keys "x,y"
    isPlaying,        \* script.js:14
    simulationSpeed,  \* script.js:15
    lastTickTime,     \* script.js:16
    scale,            \* script.js:19   (a Number: see the Number section)
    offsetX,          \* script.js:20
    offsetY,          \* script.js:21
    isDragging,       \* script.js:24
    dragStartX,       \* script.js:25
    dragStartY,       \* script.js:25
    isDrawing,        \* script.js:26
    drawMode,         \* script.js:27   TRUE = add, FALSE = remove
    brushSize,        \* script.js:30
    lastDrawPos,      \* script.js:31   NoPos (null) or <<x, y>>
    clock,            \* the browser's clock: frame timestamps, performance.now()
    seedTimer,        \* number of pending setTimeout callbacks of the start button
    introShown,       \* whether the intro modal (and its start button) is displayed
    ticks,            \* history: number of tick() calls made so far
    pendingFrames,    \* number of pending requestAnimationFrame callbacks
    events,           \* history: number of input events handled so far
    lastOp            \* history: the handler that ran last, with its inputs

vars == <<liveCells, isPlaying, simulationSpeed, lastTickTime, scale, offsetX,
          offsetY, isDragging, dragStartX, dragStartY, isDrawing, drawMode,
          brushSize, lastDrawPos, clock, seedTimer, introShown, pendingFrames,
          ticks, events, lastOp>>

-----------------------------------------------------------------------------
(* Bounds of the model *)

\* seconds of browser time explored in one behaviour
MaxSeconds == 5
\* input events explored in one behaviour
MaxEvents == 4
\* SpecTick places its initial live sets around the cells <<9k, -9k>>, k = 0..MaxShift
MaxShift == 1
\* tick() calls explored from each initial live set of SpecTick
MaxTickGen == 1
MaxStrokeEvents == 3
MaxSpecEvents == 3
MaxSpecSeconds == 1
MaxBrushEvents == 2
MaxZoomEvents == 26
MaxFieldEvents == 3

-----------------------------------------------------------------------------
(* Natural numbers of any size, as little-endian sequences of 15-bit limbs   *)
(* with no high zero limb (zero is the empty sequence).  They carry the      *)
(* 53-bit significands of JavaScript Numbers and their exact sums, products  *)
(* and quotients.                                                            *)

LimbBase == 2^15

RECURSIVE BitLenSmall(_)
BitLenSmall(x) == IF x = 0 THEN 0 ELSE 1 + BitLenSmall(x \div 2)

\* bits in a limb
LimbBits == BitLenSmall(LimbBase) - 1

RECURSIVE BTrim(_)
BTrim(a) ==
    IF a = <<>> THEN a
    ELSE IF a[Len(a)] = 0 THEN BTrim(SubSeq(a, 1, Len(a) - 1))
    ELSE a

RECURSIVE BFromNat(_)
BFromNat(n) == IF n = 0 THEN <<>> ELSE <<n % LimbBase>> \o BFromNat(n \div LimbBase)

RECURSIVE BToNat(_)
BToNat(a) == IF a = <<>> THEN 0 ELSE Head(a) + LimbBase * BToNat(Tail(a))

RECURSIVE BAddC(_, _, _)
BAddC(a, b, c) ==
    IF a = <<>> /\ b = <<>> THEN (IF c = 0 THEN <<>> ELSE <<c>>)
    ELSE LET x == IF a = <<>> THEN 0 ELSE Head(a)
             y == IF b = <<>> THEN 0 ELSE Head(b)
             s == x + y + c
         IN  <<s % LimbBase>>
                 \o BAddC(IF a = <<>> THEN a ELSE Tail(a),
                          IF b = <<>> THEN b ELSE Tail(b), s \div LimbBase)

BAdd(a, b) == BAddC(a, b, 0)

\* a - b - borrow, for a >= b + borrow
RECURSIVE BSubC(_, _, _)
BSubC(a, b, borrow) ==
    IF a = <<>> THEN <<>>
    ELSE LET y == IF b = <<>> THEN 0 ELSE Head(b)
             d == Head(a) - y - borrow
         IN  <<IF d < 0 THEN d + LimbBase ELSE d>>
                 \o BSubC(Tail(a), IF b = <<>> THEN b ELSE Tail(b),
                          IF d < 0 THEN 1 ELSE 0)

BSub(a, b) == BTrim(BSubC(a, b, 0))

RECURSIVE BCmpAt(_, _, _)
BCmpAt(a, b, i) ==
    IF i = 0 THEN 0
    ELSE IF a[i] < b[i] THEN -1
    ELSE IF a[i] > b[i] THEN 1
    ELSE BCmpAt(a, b, i - 1)

\* -1, 0 or 1 as a < b, a = b or a > b
BCmp(a, b) ==
    IF Len(a) < Len(b) THEN -1
    ELSE IF Len(a) > Len(b) THEN 1
    ELSE BCmpAt(a, b, Len(a))

\* a * d + c for one limb d and a carry c
RECURSIVE BMulSmallC(_, _, _)
BMulSmallC(a, d, c) ==
    IF a = <<>> THEN (IF c = 0 THEN <<>> ELSE <<c>>)
    ELSE LET p == Head(a) * d + c
         IN  <<p % LimbBase>> \o BMulSmallC(Tail(a), d, p \div LimbBase)

RECURSIVE BMulRaw(_, _)
BMulRaw(a, b) ==
    IF b = <<>> THEN <<>>
    ELSE BAdd(BMulSmallC(a, Head(b), 0), <<0>> \o BMulRaw(a, Tail(b)))

BMul(a, b) == BTrim(BMulRaw(a, b))

\* floor(a / d) for one limb d > 0; rem is the remainder carried from above
RECURSIVE BDivSmallHi(_, _, _)
BDivSmallHi(a, d, rem) ==
    IF a = <<>> THEN <<>>
    ELSE LET cur == rem * LimbBase + a[Len(a)]
         IN  Append(BDivSmallHi(SubSeq(a, 1, Len(a) - 1), d, cur % d), cur \div d)

RECURSIVE ZeroLimbs(_)
ZeroLimbs(n) == IF n = 0 THEN <<>> ELSE <<0>> \o ZeroLimbs(n - 1)

\* a * 2^n
BShl(a, n) ==
    IF a = <<>> THEN a
    ELSE ZeroLimbs(n \div LimbBits) \o BMulSmallC(a, 2^(n % LimbBits), 0)

\* floor(a / 2^n)
BShr(a, n) ==
    IF Len(a) <= n \div LimbBits THEN <<>>
    ELSE BTrim(BDivSmallHi(SubSeq(a, (n \div LimbBits) + 1, Len(a)),
                           2^(n % LimbBits), 0))

BBitLen(a) ==
    IF a = <<>> THEN 0 ELSE LimbBits * (Len(a) - 1) + BitLenSmall(a[Len(a)])

RECURSIVE TrailingZerosSmall(_)
TrailingZerosSmall(x) == IF x % 2 = 1 THEN 0 ELSE 1 + TrailingZerosSmall(x \div 2)

\* the number of low zero bits of a > 0
RECURSIVE BTrailingZeros(_)
BTrailingZeros(a) ==
    IF Head(a) = 0 THEN LimbBits + BTrailingZeros(Tail(a))
    ELSE TrailingZerosSmall(Head(a))

BIsOdd(a) == a # <<>> /\ Head(a) % 2 = 1

\* a * d for one limb d
BMulSmall(a, d) == BTrim(BMulSmallC(a, d, 0))

\* the largest limb q >= d with b * q <= r, found bit by bit from step down
RECURSIVE BQuotDigit(_, _, _, _)
BQuotDigit(r, b, d, step) ==
    IF step = 0 THEN d
    ELSE IF BCmp(BMulSmall(b, d + step), r) <= 0
         THEN BQuotDigit(r, b, d + step, step \div 2)
         ELSE BQuotDigit(r, b, d, step \div 2)

\* long division, one limb of a at a time from the top, r being the remainder
\* so far: <<the quotient's limbs, the remainder>>
RECURSIVE BDivModHi(_, _, _)
BDivModHi(a, b, r) ==
    IF a = <<>> THEN <<<<>>, r>>
    ELSE LET cur  == BTrim(<<a[Len(a)]>> \o r)
             d    == BQuotDigit(cur, b, 0, LimbBase \div 2)
             rest == BDivModHi(SubSeq(a, 1, Len(a) - 1), b, BSub(cur, BMulSmall(b, d)))
         IN  <<Append(rest[1], d), rest[2]>>

\* <<floor(a / b), a mod b>> for b > 0
BDivMod(a, b) ==
    LET qr == BDivModHi(a, b, <<>>)
    IN  <<BTrim(qr[1]), qr[2]>>

-----------------------------------------------------------------------------
(* JavaScript Numbers: IEEE-754 binary64, round to nearest, ties to even.    *)
(* A finite Number is sign * man * 2^exp with man odd (or zero) and below    *)
(* 2^53.  The magnitudes of the program stay far from overflow and from the  *)
(* subnormal range, so neither is modelled.                                  *)

\* 52 stored bits and the implicit leading one
SignificandBits == 52 + 1

NumZero == [sign |-> 1, man |-> <<>>, exp |-> 0]

\* the Number sign * m * 2^e, for m below 2^53
NumNormal(sign, m, e) ==
    IF m = <<>> THEN NumZero
    ELSE LET tz == BTrailingZeros(m)
         IN  [sign |-> sign, man |-> BShr(m, tz), exp |-> e + tz]

\* the Number nearest to sign * (m + s) * 2^e, where 0 < s < 1 if sticky and
\* s = 0 otherwise; ties go to the even significand
NumRound(sign, m, e, sticky) ==
    LET len == BBitLen(m)
    IN  IF len <= SignificandBits THEN NumNormal(sign, m, e)
        ELSE LET sh   == len - SignificandBits
                 kept == BShr(m, sh)
                 rem  == BSub(m, BShl(kept, sh))
                 c    == BCmp(rem, BShl(<<1>>, sh - 1))
                 up   == c > 0 \/ (c = 0 /\ (sticky \/ BIsOdd(kept)))
             IN  NumNormal(sign, IF up THEN BAdd(kept, <<1>>) ELSE kept, e + sh)

NumFromInt(n) == NumNormal(IF n < 0 THEN -1 ELSE 1, BFromNat(IF n < 0 THEN -n ELSE n), 0)

NumNeg(a) == IF a.man = <<>> THEN a ELSE [a EXCEPT !.sign = -a.sign]

\* a + b
NumAdd(a, b) ==
    LET e  == IF a.exp < b.exp THEN a.exp ELSE b.exp
        ma == BShl(a.man, a.exp - e)
        mb == BShl(b.man, b.exp - e)
        c  == BCmp(ma, mb)
    IN  IF a.man = <<>> THEN b
        ELSE IF b.man = <<>> THEN a
        ELSE IF a.sign = b.sign THEN NumRound(a.sign, BAdd(ma, mb), e, FALSE)
        ELSE IF c = 0 THEN NumZero
        ELSE IF c > 0 THEN NumRound(a.sign, BSub(ma, mb), e, FALSE)
        ELSE NumRound(b.sign, BSub(mb, ma), e, FALSE)

\* a - b
NumSub(a, b) == NumAdd(a, NumNeg(b))

\* a * b
NumMul(a, b) == NumRound(a.sign * b.sign, BMul(a.man, b.man), a.exp + b.exp, FALSE)

\* a / b for b # 0: the quotient is taken to at least 55 bits, the rest is sticky
NumDiv(a, b) ==
    IF a.man = <<>> THEN NumZero
    ELSE LET d  == (SignificandBits + 2) + BBitLen(b.man) - BBitLen(a.man)
             k  == IF d < 0 THEN 0 ELSE d
             qr == BDivMod(BShl(a.man, k), b.man)
         IN  NumRound(a.sign * b.sign, qr[1], a.exp - b.exp - k, qr[2] # <<>>)

\* -1, 0 or 1 as a < b, a = b or a > b
NumCmp(a, b) ==
    LET d == NumSub(a, b)
    IN  IF d.man = <<>> THEN 0 ELSE d.sign

NumLess(a, b) == NumCmp(a, b) < 0

\* Math.max(a, b) and Math.min(a, b)
NumMax(a, b) == IF NumLess(a, b) THEN b ELSE a
NumMin(a, b) == IF NumLess(b, a) THEN b ELSE a

\* Math.floor(a), as an integer
NumFloor(a) ==
    IF a.exp >= 0 THEN a.sign * BToNat(BShl(a.man, a.exp))
    ELSE LET q == BToNat(BShr(a.man, -a.exp))
         IN  IF a.sign < 0 THEN -(q + 1) ELSE q

-----------------------------------------------------------------------------
(* String keys: `${x},${y}` and key.split(',').map(Number) *)

Digits == <<"0", "1", "2", "3", "4", "5", "6", "7", "8", "9">>

DigitValue(ch) == CHOOSE d \in 0..9 : Digits[d + 1] = ch

RECURSIVE NatToString(_)
NatToString(n) ==
    IF n < 10 THEN <<Digits[n + 1]>>
    ELSE NatToString(n \div 10) \o <<Digits[(n % 10) + 1]>>

\* String(n) for an integer-valued Number
NumberToString(n) == IF n < 0 THEN <<"-">> \o NatToString(-n) ELSE NatToString(n)

\* the template literal `${x},${y}`
Key(x, y) == NumberToString(x) \o <<",">> \o NumberToString(y)

\* key.split(','): the pieces between the commas
RECURSIVE Split(_, _)
Split(s, acc) ==
    IF s = <<>> THEN <<acc>>
    ELSE IF Head(s) = "," THEN <<acc>> \o Split(Tail(s), <<>>)
    ELSE Split(Tail(s), Append(acc, Head(s)))

RECURSIVE ParseNat(_, _)
ParseNat(s, acc) ==
    IF s = <<>> THEN acc ELSE ParseNat(Tail(s), 10 * acc + DigitValue(Head(s)))

\* Number(s) for the decimal strings String(n) produces
ParseNumber(s) ==
    IF s # <<>> /\ Head(s) = "-" THEN -ParseNat(Tail(s), 0) ELSE ParseNat(s, 0)

\* const [x, y] = key.split(',').map(Number)
ParseKey(key) ==
    LET parts == Split(key, <<>>)
    IN  <<ParseNumber(parts[1]), ParseNumber(parts[2])>>

\* the keys of a set of coordinates, and the coordinates of a set of keys
KeysOf(cells) == {Key(c[1], c[2]) : c \in cells}
CellsOf(keys) == {ParseKey(k) : k \in keys}

-----------------------------------------------------------------------------
(* tick(): script.js:58-83 *)

neighborKeysMutCorner(key) ==
    LET xy == ParseKey(key)
        x  == xy[1]
        y  == xy[2]
    IN  <<Key(x - 1, y - 1), Key(x, y - 1), Key(x + 1, y - 1),
          Key(x - 1, y),                    Key(x + 1, y),
          Key(x - 1, y + 1), Key(x, y + 1), Key(x + 1, y - 1)>>
\* the keys addNeighbor is called with for the live cell key, in call order
neighborKeys(key) ==
    LET xy == ParseKey(key)
        x  == xy[1]
        y  == xy[2]
    IN  <<Key(x - 1, y - 1), Key(x, y - 1), Key(x + 1, y - 1),
          Key(x - 1, y),                    Key(x + 1, y),
          Key(x - 1, y + 1), Key(x, y + 1), Key(x + 1, y + 1)>>

\* the keys passed to addNeighbor by the loop over liveCells, call after call
\* (a Set is iterated in insertion order; the tally does not depend on it)
RECURSIVE addNeighborCalls(_)
addNeighborCalls(keys) ==
    IF keys = {} THEN <<>>
    ELSE LET key == CHOOSE k \in keys : TRUE
         IN  neighborKeys(key) \o addNeighborCalls(keys \ {key})

\* the Map neighborCounts after those calls: addNeighbor adds 1 to the entry of
\* its key (starting from 0), so each key maps to the number of calls with it
neighborCounts(calls) ==
    CHOOSE counts \in {[k \in {log[i] : i \in DOMAIN log} |->
                          Cardinality({i \in DOMAIN log : log[i] = k})] :
                          log \in {calls}} : TRUE

\* the rule applied to one tally entry
nextGenHasMutBirth(isAlive, count) ==
    (isAlive /\ (count = 2 \/ count = 3)) \/ (~isAlive /\ count = 2)
nextGenHasMutAny(isAlive, count) == count = 2 \/ count = 3
nextGenHasMutTwo(isAlive, count) == (isAlive /\ count = 2) \/ (~isAlive /\ count = 3)
nextGenHas(isAlive, count) ==
    IF isAlive /\ (count = 2 \/ count = 3) THEN TRUE
    ELSE IF ~isAlive /\ count = 3 THEN TRUE
    ELSE FALSE

\* the value tick() assigns to liveCells
nextGen(live) ==
    UNION {{key \in DOMAIN counts : nextGenHas(key \in live, counts[key])} :
              counts \in {neighborCounts(addNeighborCalls(live))}}

-----------------------------------------------------------------------------
(* parseInt: script.js:337, 356, 362.  A text is a sequence of one-character *)
(* strings; parseInt reads it in base 10 (no text tried starts with 0x,      *)
(* which parseInt reads in base 16).                                         *)

\* the value NaN, which is no integer: a value no text tried parses to.  Every
\* comparison with NaN is false in the code, and every definition that
\* compares a parsed value tests for NaN first
NaN == -2147483647

IsDigit(ch) == \E i \in DOMAIN Digits : Digits[i] = ch

\* white space at the start of the text is skipped
RECURSIVE TrimStart(_)
TrimStart(text) ==
    IF text # <<>> /\ Head(text) = " " THEN TrimStart(Tail(text)) ELSE text

\* the digits the text starts with
RECURSIVE DigitPrefix(_)
DigitPrefix(text) ==
    IF text # <<>> /\ IsDigit(Head(text))
    THEN <<Head(text)>> \o DigitPrefix(Tail(text))
    ELSE <<>>

\* the number a sequence of digits writes, after the digits read so far gave acc
RECURSIVE DecimalValue(_, _)
DecimalValue(digits, acc) ==
    IF digits = <<>> THEN acc
    ELSE DecimalValue(Tail(digits), 10 * acc + DigitValue(Head(digits)))

\* parseInt(text): an optional sign and the digits after it, up to the first
\* character that is no digit; NaN when there is no digit there
parseInt(text) ==
    LET trimmed  == TrimStart(text)
        signed   == trimmed # <<>> /\ Head(trimmed) \in {"+", "-"}
        negative == trimmed # <<>> /\ Head(trimmed) = "-"
        digits   == DigitPrefix(IF signed THEN Tail(trimmed) ELSE trimmed)
    IN  IF digits = <<>> THEN NaN
        ELSE IF negative THEN -DecimalValue(digits, 0)
        ELSE DecimalValue(digits, 0)

-----------------------------------------------------------------------------
(* paintCircle and interpolateLine: script.js:175-223 *)

\* Math.floor(n / 2) and Math.ceil(n / 2) for an integer n
FloorHalf(n) == n \div 2
CeilHalf(n) == (n + 1) \div 2

brushCellsMutPlus(cx, cy, size) ==
    {c \in (cx - 1..cx + 1) \X (cy - 1..cy + 1) : c[1] = cx \/ c[2] = cy}
brushCellsMutStrict(cx, cy, size) ==
    {c \in (cx - size..cx + size) \X (cy - size..cy + size) :
        4 * ((c[1] - cx) * (c[1] - cx) + (c[2] - cy) * (c[2] - cy)) < size * size}
\* the cells whose keys paintCircle(cx, cy) adds or deletes under brush size
\* size: distSq <= rSq with r = size / 2, both sides taken four times.  Under
\* size NaN the loop bounds are NaN and x <= endX is false at once
brushCells(cx, cy, size) ==
    IF size = 1 THEN {<<cx, cy>>}
    ELSE IF size = NaN THEN {}
    ELSE LET startX == FloorHalf(2 * cx - size)
             endX   == CeilHalf(2 * cx + size)
             startY == FloorHalf(2 * cy - size)
             endY   == CeilHalf(2 * cy + size)
         IN  {c \in (startX..endX) \X (startY..endY) :
                 4 * ((c[1] - cx) * (c[1] - cx) + (c[2] - cy) * (c[2] - cy))
                     <= size * size}

\* their keys
brushKeys(cx, cy, size) == KeysOf(brushCells(cx, cy, size))

\* liveCells after paintCircle(cx, cy)
paintCircle(live, cx, cy, size, mode) ==
    IF mode THEN live \cup brushKeys(cx, cy, size)
    ELSE live \ brushKeys(cx, cy, size)

Abs(n) == IF n < 0 THEN -n ELSE n

\* the loop of interpolateLine from <<x, y>> with error term err: the centres
\* it passes to paintCircle, in order; ln holds x1, y1, dx, dy, sx and sy
RECURSIVE lineFrom(_, _, _, _)
lineFrom(x, y, err, ln) ==
    IF x = ln.x1 /\ y = ln.y1 THEN <<<<x, y>>>>
    ELSE LET e2    == 2 * err
             stepX == e2 > -ln.dy
             stepY == e2 < ln.dx
         IN  <<<<x, y>>>>
                 \o lineFrom(IF stepX THEN x + ln.sx ELSE x,
                             IF stepY THEN y + ln.sy ELSE y,
                             (IF stepX THEN err - ln.dy ELSE err)
                                 + (IF stepY THEN ln.dx ELSE 0),
                             ln)

linePathMutAxisByAxis(x0, y0, x1, y1) ==
    LET dx == Abs(x1 - x0)
        dy == Abs(y1 - y0)
        sx == IF x0 < x1 THEN 1 ELSE -1
        sy == IF y0 < y1 THEN 1 ELSE -1
    IN  [i \in 1..dx + dy + 1 |->
            IF i <= dx + 1 THEN <<x0 + sx * (i - 1), y0>>
            ELSE <<x1, y0 + sy * (i - dx - 1)>>]
linePathMutEndsOnly(x0, y0, x1, y1) ==
    IF x0 = x1 /\ y0 = y1 THEN <<<<x0, y0>>>> ELSE <<<<x0, y0>>, <<x1, y1>>>>
\* the centres interpolateLine(x0, y0, x1, y1) paints, in order
linePath(x0, y0, x1, y1) ==
    LET dx == Abs(x1 - x0)
        dy == Abs(y1 - y0)
    IN  lineFrom(x0, y0, dx - dy,
                 [x1 |-> x1, y1 |-> y1, dx |-> dx, dy |-> dy,
                  sx |-> IF x0 < x1 THEN 1 ELSE -1,
                  sy |-> IF y0 < y1 THEN 1 ELSE -1])

paintPathMutFirstOnly(live, path, size, mode) ==
    IF path = <<>> THEN live
    ELSE paintCircle(live, Head(path)[1], Head(path)[2], size, mode)
\* liveCells after paintCircle at every centre of path
RECURSIVE paintPath(_, _, _, _)
paintPath(live, path, size, mode) ==
    IF path = <<>> THEN live
    ELSE paintPath(paintCircle(live, Head(path)[1], Head(path)[2], size, mode),
                   Tail(path), size, mode)

\* liveCells after interpolateLine(x0, y0, x1, y1)
interpolateLine(live, x0, y0, x1, y1, size, mode) ==
    paintPath(live, linePath(x0, y0, x1, y1), size, mode)

-----------------------------------------------------------------------------
(* The viewport: script.js:236-237, 262-263 (screen to grid), 120-121 (grid   *)
(* to screen), 278-290 (zoom)                                                *)

\* Math.floor((client - offset) / scale)
screenToGrid(screen, offset, sc) == NumFloor(NumDiv(NumSub(screen, offset), sc))

\* the same for the whole-pixel coordinate of a mouse event
toGrid(client, offset, sc) == screenToGrid(NumFromInt(client), offset, sc)

\* g * scale + offset
toScreen(g, offset, sc) == NumAdd(NumMul(NumFromInt(g), sc), offset)

\* the literal 0.1
Tenth == NumDiv(NumFromInt(1), NumFromInt(10))

\* const delta = e.deltaY > 0 ? -0.1 : 0.1
wheelDelta(deltaY) == IF deltaY > 0 THEN NumNeg(Tenth) ELSE Tenth

MinScale == 2
MaxScale == 100

newScaleMutNoUpper(sc, deltaY) ==
    NumMax(NumFromInt(MinScale), NumMul(sc, NumAdd(NumFromInt(1), wheelDelta(deltaY))))
\* Math.max(2, Math.min(100, scale * (1 + delta)))
newScale(sc, deltaY) ==
    NumMax(NumFromInt(MinScale),
           NumMin(NumFromInt(MaxScale),
                  NumMul(sc, NumAdd(NumFromInt(1), wheelDelta(deltaY)))))

\* the offset the wheel handler stores: client - ((client - offset) / scale) * scale'
zoomOffset(client, offset, sc, sc2) ==
    NumSub(NumFromInt(client),
           NumMul(NumDiv(NumSub(NumFromInt(client), offset), sc), sc2))

-----------------------------------------------------------------------------
(* The state after the script has run: script.js:14-34, 53 (resize), 169 *)

NoPos == <<>>

Op(name, arg) == [op |-> name, arg |-> arg]

\* width / 2 and height / 2 as resize() computes them
halfOf(n) == NumDiv(NumFromInt(n), NumFromInt(2))

InitialScale == 20

\* the state reached from a window of innerWidth w and innerHeight h, with the
\* live set live and play state playing, speed speed and brush size size
StateAfterLoad(w, h, live, playing, speed, size) ==
    /\ liveCells = live
    /\ isPlaying = playing
    /\ simulationSpeed = speed
    /\ lastTickTime = 0
    /\ scale = NumFromInt(InitialScale)
    /\ offsetX = halfOf(w)
    /\ offsetY = halfOf(h)
    /\ isDragging = FALSE
    /\ dragStartX = NumZero
    /\ dragStartY = NumZero
    /\ isDrawing = FALSE
    /\ drawMode = TRUE
    /\ brushSize = size
    /\ lastDrawPos = NoPos
    /\ clock = 0
    /\ seedTimer = 0
    /\ introShown = TRUE
    /\ pendingFrames = 1
    /\ ticks = 0
    /\ events = 0
    /\ lastOp = Op("load", <<>>)

-----------------------------------------------------------------------------
(* loop: script.js:159-168 *)

MsPerSecond == 1000

\* timestamp - lastTickTime >= 1000 / simulationSpeed, for whole milliseconds
\* and a whole speed.  1000 / NaN is NaN and the comparison false; 1000 / 0 is
\* Infinity, which no elapsed time reaches; under a negative speed the period
\* is negative, and multiplying by the speed turns the comparison round
tickDueMutStrict(timestamp, last, speed) == (timestamp - last) * speed > MsPerSecond
tickDue(timestamp, last, speed) ==
    IF speed = NaN \/ speed = 0 THEN FALSE
    ELSE IF speed < 0 THEN (timestamp - last) * speed <= MsPerSecond
    ELSE (timestamp - last) * speed >= MsPerSecond

loopMutIgnorePause(dt) ==
    LET timestamp == clock + dt
        due == tickDue(timestamp, lastTickTime, simulationSpeed)
    IN  /\ clock' = timestamp
        /\ liveCells' = IF due THEN nextGen(liveCells) ELSE liveCells
        /\ lastTickTime' = IF due THEN timestamp ELSE lastTickTime
        /\ ticks' = IF due THEN ticks + 1 ELSE ticks
        /\ lastOp' = Op("loop", <<timestamp, due>>)
        /\ pendingFrames > 0
        /\ pendingFrames' = (pendingFrames - 1) + 1
        /\ UNCHANGED <<isPlaying, simulationSpeed, scale, offsetX, offsetY,
                       isDragging, dragStartX, dragStartY, isDrawing, drawMode,
                       brushSize, lastDrawPos, seedTimer, introShown, events>>
loopMutNoReschedule(dt) ==
    LET timestamp == clock + dt
        due == isPlaying /\ tickDue(timestamp, lastTickTime, simulationSpeed)
    IN  /\ clock' = timestamp
        /\ liveCells' = IF due THEN nextGen(liveCells) ELSE liveCells
        /\ lastTickTime' = IF due THEN timestamp ELSE lastTickTime
        /\ ticks' = IF due THEN ticks + 1 ELSE ticks
        /\ lastOp' = Op("loop", <<timestamp, due>>)
        /\ pendingFrames > 0
        /\ pendingFrames' = IF due THEN pendingFrames ELSE pendingFrames - 1
        /\ UNCHANGED <<isPlaying, simulationSpeed, scale, offsetX, offsetY,
                       isDragging, dragStartX, dragStartY, isDrawing, drawMode,
                       brushSize, lastDrawPos, seedTimer, introShown, events>>
\* one animation frame, dt milliseconds after the previous clock reading: the
\* browser takes the callback off its list, loop runs and requests the next
loop(dt) ==
    LET timestamp == clock + dt
        due == isPlaying /\ tickDue(timestamp, lastTickTime, simulationSpeed)
    IN  /\ clock' = timestamp
        /\ liveCells' = IF due THEN nextGen(liveCells) ELSE liveCells
        /\ lastTickTime' = IF due THEN timestamp ELSE lastTickTime
        /\ ticks' = IF due THEN ticks + 1 ELSE ticks
        /\ lastOp' = Op("loop", <<timestamp, due>>)
        /\ pendingFrames > 0
        /\ pendingFrames' = (pendingFrames - 1) + 1
        /\ UNCHANGED <<isPlaying, simulationSpeed, scale, offsetX, offsetY,
                       isDragging, dragStartX, dragStartY, isDrawing, drawMode,
                       brushSize, lastDrawPos, seedTimer, introShown, events>>

-----------------------------------------------------------------------------
(* Mouse handlers: script.js:226-275 *)

MiddleButton == 1
PrimaryButton == 0

\* drawMode as the primary button's mousedown at cell <<gx, gy>> decides it
startModeMutAlwaysDraw(live, gx, gy) == TRUE
startMode(live, gx, gy) == Key(gx, gy) \notin live

\* the fourth field of the record kept of a mouse event is the sequence of
\* centres the handler passed to paintCircle
mousedown(button, clientX, clientY) ==
    IF button = MiddleButton
    THEN /\ isDragging' = TRUE
         /\ dragStartX' = NumSub(NumFromInt(clientX), offsetX)
         /\ dragStartY' = NumSub(NumFromInt(clientY), offsetY)
         /\ events' = events + 1
         /\ lastOp' = Op("mousedown", <<button, clientX, clientY, <<>>>>)
         /\ UNCHANGED <<isDrawing, drawMode, lastDrawPos, liveCells, isPlaying,
                        simulationSpeed, lastTickTime, scale, offsetX, offsetY,
                        brushSize, clock, seedTimer, introShown, ticks,
                        pendingFrames>>
    ELSE IF button = PrimaryButton
    THEN \E gx \in {toGrid(clientX, offsetX, scale)} :
         \E gy \in {toGrid(clientY, offsetY, scale)} :
         \E mode \in {startMode(liveCells, gx, gy)} :
             /\ isDrawing' = TRUE
             /\ drawMode' = mode
             /\ lastDrawPos' = <<gx, gy>>
             /\ liveCells' = paintCircle(liveCells, gx, gy, brushSize, mode)
             /\ events' = events + 1
             /\ lastOp' = Op("mousedown", <<button, clientX, clientY, <<<<gx, gy>>>>>>)
             /\ UNCHANGED <<isDragging, dragStartX, dragStartY, isPlaying,
                            simulationSpeed, lastTickTime, scale, offsetX, offsetY,
                            brushSize, clock, seedTimer, introShown, ticks,
                            pendingFrames>>
    ELSE /\ events' = events + 1
         /\ lastOp' = Op("mousedown", <<button, clientX, clientY, <<>>>>)
         /\ UNCHANGED <<isDragging, dragStartX, dragStartY, isDrawing, drawMode,
                        lastDrawPos, liveCells, isPlaying, simulationSpeed,
                        lastTickTime, scale, offsetX, offsetY, brushSize, clock,
                        seedTimer, introShown, ticks, pendingFrames>>

mouseupMutKeepsPos ==
    /\ isDragging' = FALSE
    /\ isDrawing' = FALSE
    /\ lastDrawPos' = lastDrawPos
    /\ events' = events + 1
    /\ lastOp' = Op("mouseup", <<>>)
    /\ UNCHANGED <<liveCells, isPlaying, simulationSpeed, lastTickTime, scale,
                   offsetX, offsetY, dragStartX, dragStartY, drawMode, brushSize,
                   clock, seedTimer, introShown, ticks, pendingFrames>>

mouseup ==
    /\ isDragging' = FALSE
    /\ isDrawing' = FALSE
    /\ lastDrawPos' = NoPos
    /\ events' = events + 1
    /\ lastOp' = Op("mouseup", <<>>)
    /\ UNCHANGED <<liveCells, isPlaying, simulationSpeed, lastTickTime, scale,
                   offsetX, offsetY, dragStartX, dragStartY, drawMode, brushSize,
                   clock, seedTimer, introShown, ticks, pendingFrames>>

mousemoveMutDrawFirst(clientX, clientY) ==
    IF isDragging /\ ~isDrawing
    THEN /\ offsetX' = NumSub(NumFromInt(clientX), dragStartX)
         /\ offsetY' = NumSub(NumFromInt(clientY), dragStartY)
         /\ events' = events + 1
         /\ lastOp' = Op("mousemove", <<clientX, clientY, <<>>>>)
         /\ UNCHANGED <<liveCells, lastDrawPos, isPlaying, simulationSpeed,
                        lastTickTime, scale, isDragging, dragStartX, dragStartY,
                        isDrawing, drawMode, brushSize, clock, seedTimer,
                        introShown, ticks, pendingFrames>>
    ELSE IF isDrawing
    THEN \E gx \in {toGrid(clientX, offsetX, scale)} :
         \E gy \in {toGrid(clientY, offsetY, scale)} :
         \E centres \in {IF lastDrawPos # NoPos
                         THEN linePath(lastDrawPos[1], lastDrawPos[2], gx, gy)
                         ELSE <<<<gx, gy>>>>} :
             /\ liveCells' =
                    IF lastDrawPos # NoPos
                    THEN interpolateLine(liveCells, lastDrawPos[1], lastDrawPos[2],
                                         gx, gy, brushSize, drawMode)
                    ELSE paintCircle(liveCells, gx, gy, brushSize, drawMode)
             /\ lastDrawPos' = <<gx, gy>>
             /\ events' = events + 1
             /\ lastOp' = Op("mousemove", <<clientX, clientY, centres>>)
             /\ UNCHANGED <<offsetX, offsetY, isPlaying, simulationSpeed,
                            lastTickTime, scale, isDragging, dragStartX, dragStartY,
                            isDrawing, drawMode, brushSize, clock, seedTimer,
                            introShown, ticks, pendingFrames>>
    ELSE /\ events' = events + 1
         /\ lastOp' = Op("mousemove", <<clientX, clientY, <<>>>>)
         /\ UNCHANGED <<liveCells, lastDrawPos, offsetX, offsetY, isPlaying,
                        simulationSpeed, lastTickTime, scale, isDragging,
                        dragStartX, dragStartY, isDrawing, drawMode, brushSize,
                        clock, seedTimer, introShown, ticks, pendingFrames>>

mousemove(clientX, clientY) ==
    IF isDragging
    THEN /\ offsetX' = NumSub(NumFromInt(clientX), dragStartX)
         /\ offsetY' = NumSub(NumFromInt(clientY), dragStartY)
         /\ events' = events + 1
         /\ lastOp' = Op("mousemove", <<clientX, clientY, <<>>>>)
         /\ UNCHANGED <<liveCells, lastDrawPos, isPlaying, simulationSpeed,
                        lastTickTime, scale, isDragging, dragStartX, dragStartY,
                        isDrawing, drawMode, brushSize, clock, seedTimer,
                        introShown, ticks, pendingFrames>>
    ELSE IF isDrawing
    THEN \E gx \in {toGrid(clientX, offsetX, scale)} :
         \E gy \in {toGrid(clientY, offsetY, scale)} :
         \E centres \in {IF lastDrawPos # NoPos
                         THEN linePath(lastDrawPos[1], lastDrawPos[2], gx, gy)
                         ELSE <<<<gx, gy>>>>} :
             /\ liveCells' =
                    IF lastDrawPos # NoPos
                    THEN interpolateLine(liveCells, lastDrawPos[1], lastDrawPos[2],
                                         gx, gy, brushSize, drawMode)
                    ELSE paintCircle(liveCells, gx, gy, brushSize, drawMode)
             /\ lastDrawPos' = <<gx, gy>>
             /\ events' = events + 1
             /\ lastOp' = Op("mousemove", <<clientX, clientY, centres>>)
             /\ UNCHANGED <<offsetX, offsetY, isPlaying, simulationSpeed,
                            lastTickTime, scale, isDragging, dragStartX, dragStartY,
                            isDrawing, drawMode, brushSize, clock, seedTimer,
                            introShown, ticks, pendingFrames>>
    ELSE /\ events' = events + 1
         /\ lastOp' = Op("mousemove", <<clientX, clientY, <<>>>>)
         /\ UNCHANGED <<liveCells, lastDrawPos, offsetX, offsetY, isPlaying,
                        simulationSpeed, lastTickTime, scale, isDragging,
                        dragStartX, dragStartY, isDrawing, drawMode, brushSize,
                        clock, seedTimer, introShown, ticks, pendingFrames>>

-----------------------------------------------------------------------------
(* Zoom: script.js:278-290 *)

wheel(clientX, clientY, deltaY) ==
    \E sc2 \in {newScale(scale, deltaY)} :
        /\ scale' = sc2
        /\ offsetX' = zoomOffset(clientX, offsetX, scale, sc2)
        /\ offsetY' = zoomOffset(clientY, offsetY, scale, sc2)
        /\ events' = events + 1
        /\ lastOp' = Op("wheel", <<clientX, clientY, deltaY>>)
        /\ UNCHANGED <<liveCells, isPlaying, simulationSpeed, lastTickTime,
                       isDragging, dragStartX, dragStartY, isDrawing, drawMode,
                       brushSize, lastDrawPos, clock, seedTimer, introShown, ticks,
                       pendingFrames>>

-----------------------------------------------------------------------------
(* Buttons and menus: script.js:296-367 *)

\* the auto-seed of the start button: script.js:303-304
GliderSeed == {Key(0, 0), Key(1, 0), Key(2, 0), Key(2, -1), Key(1, -2)}

\* the start button's click handler: it starts the 300 ms timer
startBtnClick ==
    /\ introShown
    /\ seedTimer' = seedTimer + 1
    /\ events' = events + 1
    /\ lastOp' = Op("startBtn", <<>>)
    /\ UNCHANGED <<liveCells, isPlaying, simulationSpeed, lastTickTime, scale,
                   offsetX, offsetY, isDragging, dragStartX, dragStartY, isDrawing,
                   drawMode, brushSize, lastDrawPos, clock, introShown, ticks,
                   pendingFrames>>

seedTimeoutMutAlways ==
    /\ seedTimer > 0
    /\ seedTimer' = seedTimer - 1
    /\ introShown' = FALSE
    /\ liveCells' = liveCells \cup GliderSeed
    /\ lastOp' = Op("seedTimeout", <<Cardinality(liveCells) = 0>>)
    /\ UNCHANGED <<isPlaying, simulationSpeed, lastTickTime, scale, offsetX,
                   offsetY, isDragging, dragStartX, dragStartY, isDrawing, drawMode,
                   brushSize, lastDrawPos, clock, ticks, events, pendingFrames>>

\* the timer's callback
seedTimeout ==
    /\ seedTimer > 0
    /\ seedTimer' = seedTimer - 1
    /\ introShown' = FALSE
    /\ liveCells' = IF Cardinality(liveCells) = 0 THEN GliderSeed ELSE liveCells
    /\ lastOp' = Op("seedTimeout", <<Cardinality(liveCells) = 0>>)
    /\ UNCHANGED <<isPlaying, simulationSpeed, lastTickTime, scale, offsetX,
                   offsetY, isDragging, dragStartX, dragStartY, isDrawing, drawMode,
                   brushSize, lastDrawPos, clock, ticks, events, pendingFrames>>

\* performance.now() read dt milliseconds after the previous clock reading
playPauseClickMutKeepsTime(dt) ==
    /\ isPlaying' = ~isPlaying
    /\ clock' = clock + dt
    /\ lastTickTime' = lastTickTime
    /\ events' = events + 1
    /\ lastOp' = Op("playPause", <<clock + dt>>)
    /\ UNCHANGED <<liveCells, simulationSpeed, scale, offsetX, offsetY, isDragging,
                   dragStartX, dragStartY, isDrawing, drawMode, brushSize,
                   lastDrawPos, seedTimer, introShown, ticks, pendingFrames>>

playPauseClickMutClears(dt) ==
    /\ isPlaying' = ~isPlaying
    /\ clock' = clock + dt
    /\ lastTickTime' = IF ~isPlaying THEN clock + dt ELSE lastTickTime
    /\ events' = events + 1
    /\ lastOp' = Op("playPause", <<clock + dt>>)
    /\ liveCells' = {}
    /\ UNCHANGED <<simulationSpeed, scale, offsetX, offsetY, isDragging,
                   dragStartX, dragStartY, isDrawing, drawMode, brushSize,
                   lastDrawPos, seedTimer, introShown, ticks, pendingFrames>>

playPauseClick(dt) ==
    /\ isPlaying' = ~isPlaying
    /\ clock' = clock + dt
    /\ lastTickTime' = IF ~isPlaying THEN clock + dt ELSE lastTickTime
    /\ events' = events + 1
    /\ lastOp' = Op("playPause", <<clock + dt>>)
    /\ UNCHANGED <<liveCells, simulationSpeed, scale, offsetX, offsetY, isDragging,
                   dragStartX, dragStartY, isDrawing, drawMode, brushSize,
                   lastDrawPos, seedTimer, introShown, ticks, pendingFrames>>

clearBtnClickMutRedraw ==
    /\ liveCells' = liveCells
    /\ events' = events + 1
    /\ lastOp' = Op("clear", <<>>)
    /\ UNCHANGED <<isPlaying, simulationSpeed, lastTickTime, scale, offsetX,
                   offsetY, isDragging, dragStartX, dragStartY, isDrawing, drawMode,
                   brushSize, lastDrawPos, clock, seedTimer, introShown, ticks,
                   pendingFrames>>
clearBtnClick ==
    /\ liveCells' = {}
    /\ events' = events + 1
    /\ lastOp' = Op("clear", <<>>)
    /\ UNCHANGED <<isPlaying, simulationSpeed, lastTickTime, scale, offsetX,
                   offsetY, isDragging, dragStartX, dragStartY, isDrawing, drawMode,
                   brushSize, lastDrawPos, clock, seedTimer, introShown, ticks,
                   pendingFrames>>

\* a click on a .speed-opt button whose data-speed attribute is text
speedOptClick(text) ==
    /\ simulationSpeed' = parseInt(text)
    /\ events' = events + 1
    /\ lastOp' = Op("speed", <<text>>)
    /\ UNCHANGED <<liveCells, isPlaying, lastTickTime, scale, offsetX, offsetY,
                   isDragging, dragStartX, dragStartY, isDrawing, drawMode,
                   brushSize, lastDrawPos, clock, seedTimer, introShown, ticks,
                   pendingFrames>>

\* an input event of the brush slider whose value is text
brushSliderInput(text) ==
    /\ brushSize' = parseInt(text)
    /\ events' = events + 1
    /\ lastOp' = Op("brushSlider", <<text>>)
    /\ UNCHANGED <<liveCells, isPlaying, simulationSpeed, lastTickTime, scale,
                   offsetX, offsetY, isDragging, dragStartX, dragStartY, isDrawing,
                   drawMode, lastDrawPos, clock, seedTimer, introShown, ticks,
                   pendingFrames>>

MinBrush == 1
MaxBrush == 50

\* if(val < 1) val = 1; if(val > 50) val = 50: both tests are false of NaN
brushInputClamp(val) ==
    IF val = NaN THEN NaN
    ELSE IF val < MinBrush THEN MinBrush
    ELSE IF val > MaxBrush THEN MaxBrush
    ELSE val

\* an input event of the brush number field whose value is text
brushInputInput(text) ==
    /\ brushSize' = brushInputClamp(parseInt(text))
    /\ events' = events + 1
    /\ lastOp' = Op("brushInput", <<text>>)
    /\ UNCHANGED <<liveCells, isPlaying, simulationSpeed, lastTickTime, scale,
                   offsetX, offsetY, isDragging, dragStartX, dragStartY, isDrawing,
                   drawMode, lastDrawPos, clock, seedTimer, introShown, ticks,
                   pendingFrames>>

-----------------------------------------------------------------------------
(* SpecTick: tick() applied to every live set inside a small box *)

\* window.innerWidth and window.innerHeight of the modelled window
InnerWidth == 1920
InnerHeight == 1080

\* milliseconds between one clock reading and the next
FrameSteps == {MsPerSecond \div 2, MsPerSecond}

\* a cell and its Moore neighbourhood
Moore(c) == {<<c[1] + i, c[2] + j>> : <<i, j>> \in (-1..1) \X (-1..1)}

\* the cells around which the initial live sets lie
TickCentres == {<<9 * k, -9 * k>> : k \in 0..MaxShift}

\* every set of cells within the Moore neighbourhood of a centre is an initial
\* live set
InitTick ==
    \E c \in TickCentres : \E S \in SUBSET Moore(c) :
        StateAfterLoad(InnerWidth, InnerHeight, KeysOf(S), TRUE, 1, 1)

NextTick == \E dt \in FrameSteps : ticks < MaxTickGen /\ loop(dt)

SpecTick == InitTick /\ [][NextTick]_vars

\* the Moore neighbours of cell c that are in S
LiveNeighbours(c, S) ==
    {d \in S : d # c /\ Abs(d[1] - c[1]) <= 1 /\ Abs(d[2] - c[2]) <= 1}

\* the cells of S and the cells next to one
Around(S) == UNION {Moore(c) : c \in S}

\* the B3/S23 successor of the generation S
Successor(S) ==
    {c \in Around(S) :
        \/ Cardinality(LiveNeighbours(c, S)) = 3
        \/ Cardinality(LiveNeighbours(c, S)) = 2 /\ c \in S}

\* a step in which loop called tick()
TickStep == ticks' = ticks + 1

\* C1: one call of tick() replaces liveCells by exactly the cells with three
\* live neighbours and the live cells with two, counted in the old generation
C1_TickIsB3S23 ==
    [][TickStep => liveCells' = KeysOf(Successor(CellsOf(liveCells)))]_vars

\* a tick has turned the horizontal blinker into the vertical one: two cells
\* died with one neighbour, one survived with two, two were born with three
C1_Witness ==
    /\ ticks = 1
    /\ lastOp.op = "loop"
    /\ liveCells = KeysOf({<<0, -1>>, <<0, 0>>, <<0, 1>>})

-----------------------------------------------------------------------------
(* SpecPattern: known patterns left to run, frames being the only events *)

\* the cells of S moved by <<dx, dy>>
Translate(S, dx, dy) == {<<c[1] + dx, c[2] + dy>> : c \in S}

Glider == {<<0, 0>>, <<1, 0>>, <<2, 0>>, <<2, -1>>, <<1, -2>>}
Blinker == {<<0, 0>>, <<1, 0>>, <<2, 0>>}
BlinkerTurned == {<<1, -1>>, <<1, 0>>, <<1, 1>>}
Block(x, y) == {<<x, y>>, <<x + 1, y>>, <<x, y + 1>>, <<x + 1, y + 1>>}

\* the corners of the blocks tried
BlockCorners == {<<0, 0>>, <<-1, -1>>, <<-2, 0>>, <<9, -10>>, <<98, 99>>}
Blocks == {Block(c[1], c[2]) : c \in BlockCorners}

PatternSeeds == {Glider, Blinker} \cup Blocks

\* the clock may advance by dt
InTime(dt) == clock + dt <= MaxSeconds * MsPerSecond

InitPattern ==
    \E S \in PatternSeeds :
        StateAfterLoad(InnerWidth, InnerHeight, KeysOf(S), TRUE, 1, 1)

NextPattern == \E dt \in FrameSteps : InTime(dt) /\ loop(dt)

SpecPattern == InitPattern /\ [][NextPattern]_vars

\* C2: from the glider seed, four calls of tick() give the seed moved by
\* (+1, +1), and one, two or three calls do not
C2_GliderPeriod ==
    (liveCells = GliderSeed /\ ticks = 0) =>
        [](/\ ticks = 4 => liveCells = KeysOf(Translate(Glider, 1, 1))
           /\ ticks \in 1..3 => liveCells # KeysOf(Translate(Glider, 1, 1)))

\* the glider after its fourth tick
C2_Witness ==
    /\ ticks = 4
    /\ lastOp.op = "loop"
    /\ liveCells = KeysOf(Translate(Glider, 1, 1))

\* C3: the blinker turns into the three-cell column after one tick and back
\* after two, so its live set depends only on the parity of the tick count
C3_BlinkerPeriod ==
    (liveCells = KeysOf(Blinker) /\ ticks = 0) =>
        [](/\ ticks % 2 = 1 => liveCells = KeysOf(BlinkerTurned)
           /\ ticks % 2 = 0 => liveCells = KeysOf(Blinker))

\* the blinker back in its first phase after two ticks
C3_Witness ==
    /\ ticks = 2
    /\ lastOp.op = "loop"
    /\ liveCells = KeysOf(Blinker)

\* C4: a 2x2 block stays the same block through every number of ticks
C4_BlockIsStill ==
    \A B \in Blocks : (liveCells = KeysOf(B) /\ ticks = 0) => [](liveCells = KeysOf(B))

\* a block after several ticks
C4_Witness ==
    /\ ticks >= 3
    /\ lastOp.op = "loop"
    /\ liveCells = KeysOf(Block(-1, -1))

-----------------------------------------------------------------------------
(* SpecClear: the patterns above (none of which dies out by itself) under     *)
(* frames, the clear button and the play/pause button                        *)

\* one more input event may be handled
InBudget == events < MaxEvents

NextClear ==
    \/ \E dt \in FrameSteps : InTime(dt) /\ loop(dt)
    \/ InBudget /\ clearBtnClick
    \/ \E dt \in FrameSteps : InBudget /\ InTime(dt) /\ playPauseClick(dt)

SpecClear == InitPattern /\ [][NextClear]_vars

\* C5: the clear button empties liveCells, and from an empty live set every
\* frame (with or without a tick) and every pause or resume leaves it empty
C5_EmptyStaysEmpty ==
    [][/\ lastOp'.op = "clear" => liveCells' = {}
       /\ liveCells = {} => liveCells' = {}]_vars

\* tick() has just run on the live set the clear button emptied
C5_Witness ==
    /\ liveCells = {}
    /\ lastOp.op = "loop"
    /\ lastOp.arg[2]
    /\ ticks >= 2

-----------------------------------------------------------------------------
(* SpecView: the viewport under wheel zooms and middle-button pans           *)

\* the pointer positions tried: the window's centre, the corner of the cell
\* up and left of it, and a point inside a cell
ViewPoints == {<<InnerWidth \div 2, InnerHeight \div 2>>,
               <<InnerWidth \div 2 - InitialScale, InnerHeight \div 2 - InitialScale>>,
               <<1000, 600>>}

\* e.deltaY of one wheel notch away from the user and towards the user
WheelDeltas == {-100, 100}

InitView == StateAfterLoad(InnerWidth, InnerHeight, {}, FALSE, 1, 1)

NextView ==
    \/ \E p \in ViewPoints : \E dy \in WheelDeltas :
           InBudget /\ wheel(p[1], p[2], dy)
    \/ \E p \in ViewPoints : InBudget /\ mousedown(MiddleButton, p[1], p[2])
    \/ \E p \in ViewPoints : InBudget /\ mousemove(p[1], p[2])
    \/ InBudget /\ mouseup

SpecView == InitView /\ [][NextView]_vars

\* C6: across every wheel event the cell under the pointer, computed as the
\* pointer handlers compute it, is the same before and after the handler
C6_ZoomKeepsCellUnderCursor ==
    [][lastOp'.op = "wheel" =>
          /\ toGrid(lastOp'.arg[1], offsetX', scale') = toGrid(lastOp'.arg[1], offsetX, scale)
          /\ toGrid(lastOp'.arg[2], offsetY', scale') = toGrid(lastOp'.arg[2], offsetY, scale)]_vars

\* the cells whose round trip is examined
ViewCells == -3..3

\* C7: in every viewport the program reaches, the screen position draw gives
\* to cell c maps back to c under the pointer handlers' floor((s - offset)/scale)
C7_GridScreenRoundTrip ==
    \A c \in ViewCells :
        /\ screenToGrid(toScreen(c, offsetX, scale), offsetX, scale) = c
        /\ screenToGrid(toScreen(c, offsetY, scale), offsetY, scale) = c

-----------------------------------------------------------------------------
(* SpecStroke: the first stroke on an empty, paused board *)

\* the brush sizes tried: the single cell, even and odd diameters
BrushSizes == {1, 2, 3, 4, 7, 12}

\* the pointer positions tried; at scale 20 and offset (960, 540) they lie in
\* the cells (0,0), (5,1), (-3,-7), (0,8), (-13,0) and (7,7)
StrokePoints == {<<960, 540>>, <<1060, 560>>, <<900, 400>>, <<960, 700>>,
                 <<700, 540>>, <<1100, 680>>}

InitStroke ==
    \E size \in BrushSizes :
        StateAfterLoad(InnerWidth, InnerHeight, {}, FALSE, 1, size)

\* one more event of the stroke may be handled
StrokeBudget == events < MaxStrokeEvents

NextStroke ==
    \/ \E p \in StrokePoints :
           StrokeBudget /\ liveCells = {} /\ mousedown(PrimaryButton, p[1], p[2])
    \/ \E p \in StrokePoints : StrokeBudget /\ mousemove(p[1], p[2])
    \/ StrokeBudget /\ mouseup

SpecStroke == InitStroke /\ [][NextStroke]_vars

\* every cell of S is reached from the cells of seen by steps to Moore
\* neighbours within S, the cells of front being those of seen found last
RECURSIVE ReachesAll(_, _, _)
ReachesAll(front, seen, S) ==
    \E more \in {{c \in UNION {Moore(d) : d \in front} : c \in S /\ c \notin seen}} :
        IF more = {} THEN seen = S
        ELSE \E seen2 \in {seen \cup more} : ReachesAll(more, seen2, S)

\* cells is 8-connected
EightConnected(cells) ==
    \E S \in {cells} :
        \/ S = {}
        \/ \E first \in {{CHOOSE c \in S : TRUE}} : ReachesAll(first, first, S)

\* a mousemove that calls interpolateLine
StrokeStep == lastOp'.op = "mousemove" /\ isDrawing /\ ~isDragging /\ lastDrawPos # NoPos

\* the cells painted by paintCircle at the centres of path
PaintedBy(path, size) ==
    UNION {brushCells(path[i][1], path[i][2], size) : i \in 1..Len(path)}

\* C8: the centres interpolateLine passes to paintCircle start at the last
\* stroke position, end at the cell the handler found under the pointer (the
\* next last stroke position) and move by at most one cell per
\* axis from one to the next; in draw mode the cells painted by the call form
\* one 8-connected set holding both endpoints, and all become alive
C8_StrokeHasNoGaps ==
    [][StrokeStep =>
          LET path == lastOp'.arg[3]
              to   == lastDrawPos'
          IN  /\ path[1] = lastDrawPos
              /\ path[Len(path)] = to
              /\ \A i \in 1..Len(path) - 1 :
                     /\ Abs(path[i + 1][1] - path[i][1]) <= 1
                     /\ Abs(path[i + 1][2] - path[i][2]) <= 1
              /\ drawMode =>
                     /\ liveCells' = liveCells \cup KeysOf(PaintedBy(path, brushSize))
                     /\ EightConnected(PaintedBy(path, brushSize))
                     /\ Key(lastDrawPos[1], lastDrawPos[2]) \in liveCells'
                     /\ Key(to[1], to[2]) \in liveCells']_vars

\* a stroke has just been drawn from cell (-13,0) to cell (7,7), twenty cells
\* apart, with the single-cell brush
C8_Witness ==
    /\ lastOp.op = "mousemove"
    /\ Len(lastOp.arg[3]) > 20
    /\ lastOp.arg[3][1] = <<-13, 0>>
    /\ lastDrawPos = <<7, 7>>
    /\ brushSize = 1
    /\ isDrawing

-----------------------------------------------------------------------------
(* Spec: the page from its load on, under every handler *)

\* the pointer positions tried; at scale 20 and offset (960, 540) they lie in
\* the cells (0,0) and (2,-1), both cells of the auto-seed
Points == {<<960, 540>>, <<1010, 530>>}

\* the pointer position of the wheel events
WheelPoints == {<<960, 540>>}

\* e.button of the buttons tried
Buttons == {PrimaryButton, MiddleButton}

\* the values of data-speed tried
Speeds == {<<"1", "0", "0", "0">>}

\* the values tried for the brush slider and for the brush number field
SliderValues == {<<"3">>}
FieldValues == {<<"0">>}

Init == StateAfterLoad(InnerWidth, InnerHeight, {}, FALSE, 1, 1)

\* one more input event may be handled
SpecBudget == events < MaxSpecEvents

Next ==
    \/ clock + MsPerSecond <= MaxSpecSeconds * MsPerSecond /\ loop(MsPerSecond)
    \/ \E b \in Buttons : \E p \in Points : SpecBudget /\ mousedown(b, p[1], p[2])
    \/ SpecBudget /\ mouseup
    \/ \E p \in Points : SpecBudget /\ mousemove(p[1], p[2])
    \/ \E p \in WheelPoints : \E dy \in WheelDeltas :
           SpecBudget /\ wheel(p[1], p[2], dy)
    \/ SpecBudget /\ startBtnClick
    \/ seedTimeout
    \/ SpecBudget /\ playPauseClick(0)
    \/ SpecBudget /\ clearBtnClick
    \/ \E speed \in Speeds : SpecBudget /\ speedOptClick(speed)
    \/ \E val \in SliderValues : SpecBudget /\ brushSliderInput(val)
    \/ \E val \in FieldValues : SpecBudget /\ brushInputInput(val)

Spec == Init /\ [][Next]_vars

\* the centres the handler recorded in op passed to paintCircle
Centres(op) ==
    IF op.op = "mousedown" THEN op.arg[4]
    ELSE IF op.op = "mousemove" THEN op.arg[3]
    ELSE <<>>

\* a step of the primary button's mousedown
StrokeStart == lastOp'.op = "mousedown" /\ lastOp'.arg[1] = PrimaryButton

\* C9: the primary button's mousedown on cell s sets drawMode to whether s is
\* dead; while the stroke lasts no handler other than that mousedown changes
\* drawMode (only mouseup ends the stroke), and every cell under the brush at
\* every centre a handler of the stroke paints is alive afterwards in draw
\* mode and dead afterwards in erase mode
C9_StrokeModeFixed ==
    [][/\ StrokeStart =>
              LET s == <<toGrid(lastOp'.arg[2], offsetX, scale),
                         toGrid(lastOp'.arg[3], offsetY, scale)>>
              IN  /\ Centres(lastOp') = <<s>>
                  /\ drawMode' = (Key(s[1], s[2]) \notin liveCells)
                  /\ isDrawing'
       /\ (isDrawing /\ ~StrokeStart /\ lastOp'.op # "mouseup") =>
              /\ drawMode' = drawMode
              /\ isDrawing'
       /\ (isDrawing' /\ lastOp'.op \in {"mousedown", "mousemove"}) =>
              \A k \in KeysOf(PaintedBy(Centres(lastOp'), brushSize)) :
                  (k \in liveCells') = drawMode']_vars

\* an erasing stroke: the start button seeded the glider, the primary button
\* went down on the live cell (0,0), and a mousemove has just erased the cells
\* on the way to (2,-1)
C9_Witness ==
    /\ isDrawing
    /\ ~drawMode
    /\ lastOp.op = "mousemove"
    /\ Len(Centres(lastOp)) = 3
    /\ liveCells = GliderSeed \ KeysOf({<<0, 0>>, <<1, 0>>, <<1, -1>>, <<2, -1>>})
    /\ liveCells # {}

\* C10: with brushSize 1 every paintCircle(cx, cy) call of a mouse handler
\* adds exactly the key of (cx, cy) in draw mode and deletes exactly it in
\* erase mode: all other keys are in liveCells after the handler exactly when
\* they were before; on a mousedown the one key does change sides
C10_BrushOneIsOneCell ==
    [][(brushSize = 1 /\ lastOp'.op \in {"mousedown", "mousemove"}) =>
          LET keys == KeysOf({Centres(lastOp')[i] : i \in 1..Len(Centres(lastOp'))})
          IN  /\ liveCells' = IF drawMode' THEN liveCells \cup keys ELSE liveCells \ keys
              /\ StrokeStart =>
                     /\ Cardinality(keys) = 1
                     /\ Cardinality((liveCells' \ liveCells) \cup (liveCells \ liveCells')) = 1]_vars

\* the primary button went down on the live cell (0,0) of the seeded glider
\* with the single-cell brush: only that cell was deleted
C10_Witness ==
    /\ lastOp.op = "mousedown"
    /\ Centres(lastOp) = <<<<0, 0>>>>
    /\ brushSize = 1
    /\ ~drawMode
    /\ liveCells = GliderSeed \ {Key(0, 0)}

-----------------------------------------------------------------------------
(* The packed-key engine: unnamed/part_000:1-273 (unnamed/part_001 has the   *)
(* same pack, tick, paintCircle and mouse handlers). Its state variables are *)
(* those of script.js; liveCells holds 32-bit integer keys.                  *)

\* 0x8000 and 0xFFFF + 1
PackBias == 32768
PackSpan == 65536

\* ((x + 0x8000) << 16) | ((y + 0x8000) & 0xFFFF): << and | give a signed
\* 32-bit integer whose upper half is the low 16 bits of x + 0x8000
pack(x, y) ==
    LET hi == (x + PackBias) % PackSpan
        lo == (y + PackBias) % PackSpan
    IN  (IF hi >= PackBias THEN hi - PackSpan ELSE hi) * PackSpan + lo

unpackXMutSignedShift(key) == (key \div PackSpan) - PackBias
\* (key >>> 16) - 0x8000: >>> reads key as unsigned
unpackX(key) == ((key \div PackSpan) % PackSpan) - PackBias

\* (key & 0xFFFF) - 0x8000
unpackY(key) == (key % PackSpan) - PackBias

PackedKeysOf(cells) == {pack(c[1], c[2]) : c \in cells}
PackedCellsOf(keys) == {<<unpackX(k), unpackY(k)>> : k \in keys}

\* the cells the loops of paintCircle(cx, cy) reach without "continue"
brushCellsPacked(cx, cy, size) ==
    IF size = NaN THEN {}
    ELSE LET startX == FloorHalf(2 * cx - size)
             endX   == CeilHalf(2 * cx + size)
             startY == FloorHalf(2 * cy - size)
             endY   == CeilHalf(2 * cy + size)
         IN  {c \in (startX..endX) \X (startY..endY) :
                 ~(size > 1 /\ 4 * ((c[1] - cx) * (c[1] - cx)
                                      + (c[2] - cy) * (c[2] - cy)) > size * size)}

\* liveCells after paintCircle(cx, cy)
paintCirclePacked(live, cx, cy, size, mode) ==
    IF mode THEN live \cup PackedKeysOf(brushCellsPacked(cx, cy, size))
    ELSE live \ PackedKeysOf(brushCellsPacked(cx, cy, size))

\* liveCells after paintCircle at every centre of path
RECURSIVE paintPathPacked(_, _, _, _)
paintPathPacked(live, path, size, mode) ==
    IF path = <<>> THEN live
    ELSE paintPathPacked(paintCirclePacked(live, Head(path)[1], Head(path)[2], size, mode),
                         Tail(path), size, mode)

mousedownPacked(button, clientX, clientY) ==
    IF button = MiddleButton
    THEN /\ isDragging' = TRUE
         /\ dragStartX' = NumSub(NumFromInt(clientX), offsetX)
         /\ dragStartY' = NumSub(NumFromInt(clientY), offsetY)
         /\ events' = events + 1
         /\ lastOp' = Op("mousedown", <<button, clientX, clientY, <<>>>>)
         /\ UNCHANGED <<isDrawing, drawMode, lastDrawPos, liveCells, isPlaying,
                        simulationSpeed, lastTickTime, scale, offsetX, offsetY,
                        brushSize, clock, seedTimer, introShown, ticks,
                        pendingFrames>>
    ELSE IF button = PrimaryButton
    THEN \E gx \in {toGrid(clientX, offsetX, scale)} :
         \E gy \in {toGrid(clientY, offsetY, scale)} :
         \E mode \in {pack(gx, gy) \notin liveCells} :
             /\ isDrawing' = TRUE
             /\ drawMode' = mode
             /\ lastDrawPos' = <<gx, gy>>
             /\ liveCells' = paintCirclePacked(liveCells, gx, gy, brushSize, mode)
             /\ events' = events + 1
             /\ lastOp' = Op("mousedown", <<button, clientX, clientY, <<<<gx, gy>>>>>>)
             /\ UNCHANGED <<isDragging, dragStartX, dragStartY, isPlaying,
                            simulationSpeed, lastTickTime, scale, offsetX, offsetY,
                            brushSize, clock, seedTimer, introShown, ticks,
                            pendingFrames>>
    ELSE /\ events' = events + 1
         /\ lastOp' = Op("mousedown", <<button, clientX, clientY, <<>>>>)
         /\ UNCHANGED <<isDragging, dragStartX, dragStartY, isDrawing, drawMode,
                        lastDrawPos, liveCells, isPlaying, simulationSpeed,
                        lastTickTime, scale, offsetX, offsetY, brushSize, clock,
                        seedTimer, introShown, ticks, pendingFrames>>

mousemovePacked(clientX, clientY) ==
    IF isDragging
    THEN /\ offsetX' = NumSub(NumFromInt(clientX), dragStartX)
         /\ offsetY' = NumSub(NumFromInt(clientY), dragStartY)
         /\ events' = events + 1
         /\ lastOp' = Op("mousemove", <<clientX, clientY, <<>>>>)
         /\ UNCHANGED <<liveCells, lastDrawPos, isPlaying, simulationSpeed,
                        lastTickTime, scale, isDragging, dragStartX, dragStartY,
                        isDrawing, drawMode, brushSize, clock, seedTimer,
                        introShown, ticks, pendingFrames>>
    ELSE IF isDrawing
    THEN \E gx \in {toGrid(clientX, offsetX, scale)} :
         \E gy \in {toGrid(clientY, offsetY, scale)} :
         \E centres \in {IF lastDrawPos # NoPos
                         THEN linePath(lastDrawPos[1], lastDrawPos[2], gx, gy)
                         ELSE <<<<gx, gy>>>>} :
             /\ liveCells' = paintPathPacked(liveCells, centres, brushSize, drawMode)
             /\ lastDrawPos' = <<gx, gy>>
             /\ events' = events + 1
             /\ lastOp' = Op("mousemove", <<clientX, clientY, centres>>)
             /\ UNCHANGED <<offsetX, offsetY, isPlaying, simulationSpeed,
                            lastTickTime, scale, isDragging, dragStartX, dragStartY,
                            isDrawing, drawMode, brushSize, clock, seedTimer,
                            introShown, ticks, pendingFrames>>
    ELSE /\ events' = events + 1
         /\ lastOp' = Op("mousemove", <<clientX, clientY, <<>>>>)
         /\ UNCHANGED <<liveCells, lastDrawPos, offsetX, offsetY, isPlaying,
                        simulationSpeed, lastTickTime, scale, isDragging,
                        dragStartX, dragStartY, isDrawing, drawMode, brushSize,
                        clock, seedTimer, introShown, ticks, pendingFrames>>

-----------------------------------------------------------------------------
(* SpecPackedStroke: the first stroke of the packed-key engine *)

NextPackedStroke ==
    \/ \E p \in StrokePoints :
           StrokeBudget /\ liveCells = {} /\ mousedownPacked(PrimaryButton, p[1], p[2])
    \/ \E p \in StrokePoints : StrokeBudget /\ mousemovePacked(p[1], p[2])
    \/ StrokeBudget /\ mouseup

SpecPackedStroke == InitStroke /\ [][NextPackedStroke]_vars

\* C11: with brushSize 1, the paintCircle call of the packed-key engine's
\* primary mousedown changes the membership of the key of the cell under the
\* pointer and of no other key
C11_PackedBrushOneIsOneCell ==
    [][(brushSize = 1 /\ StrokeStart) =>
          LET c == Centres(lastOp')[1]
          IN  liveCells' = IF drawMode' THEN liveCells \cup {pack(c[1], c[2])}
                           ELSE liveCells \ {pack(c[1], c[2])}]_vars

-----------------------------------------------------------------------------
(* tick and loop of the packed-key engine: unnamed/part_000:65-92, 169-182 *)

\* the keys pack(x + i, y + j) in the order of the loops over i and j
neighborKeysPacked(key) ==
    LET x == unpackX(key)
        y == unpackY(key)
    IN  <<pack(x - 1, y - 1), pack(x - 1, y), pack(x - 1, y + 1),
          pack(x, y - 1),                     pack(x, y + 1),
          pack(x + 1, y - 1), pack(x + 1, y), pack(x + 1, y + 1)>>

\* the keys whose count the loop over liveCells increments, one after another
RECURSIVE addNeighborCallsPacked(_)
addNeighborCallsPacked(keys) ==
    IF keys = {} THEN <<>>
    ELSE LET key == CHOOSE k \in keys : TRUE
         IN  neighborKeysPacked(key) \o addNeighborCallsPacked(keys \ {key})

\* count === 3 || (isAlive && count === 2)
nextGenHasPacked(isAlive, count) == count = 3 \/ (isAlive /\ count = 2)

\* the value tick() assigns to liveCells
nextGenPacked(live) ==
    UNION {{key \in DOMAIN counts : nextGenHasPacked(key \in live, counts[key])} :
              counts \in {neighborCounts(addNeighborCallsPacked(live))}}

loopPacked(dt) ==
    LET timestamp == clock + dt
        due == isPlaying /\ tickDue(timestamp, lastTickTime, simulationSpeed)
    IN  /\ clock' = timestamp
        /\ liveCells' = IF due THEN nextGenPacked(liveCells) ELSE liveCells
        /\ lastTickTime' = IF due THEN timestamp ELSE lastTickTime
        /\ ticks' = IF due THEN ticks + 1 ELSE ticks
        /\ lastOp' = Op("loop", <<timestamp, due>>)
        /\ pendingFrames > 0
        /\ pendingFrames' = (pendingFrames - 1) + 1
        /\ UNCHANGED <<isPlaying, simulationSpeed, scale, offsetX, offsetY,
                       isDragging, dragStartX, dragStartY, isDrawing, drawMode,
                       brushSize, lastDrawPos, seedTimer, introShown, events>>

-----------------------------------------------------------------------------
(* SpecPackedTick: generations of the packed-key engine, at the edges of the *)
(* encodable range and away from them                                        *)

\* the least and the greatest coordinate a key encodes
MinCoord == -PackBias
MaxCoord == PackBias - 1

InRange(c) ==
    /\ MinCoord <= c[1] /\ c[1] <= MaxCoord
    /\ MinCoord <= c[2] /\ c[2] <= MaxCoord

\* the boards tried: the blinker and the glider near the origin, a glider
\* that has travelled to the corner (MaxCoord, MinCoord), and boards with two
\* cells on one edge and one on the opposite edge
EdgeSeeds ==
    {Blinker, Glider,
     {<<MaxCoord - 2, MinCoord + 2>>, <<MaxCoord - 1, MinCoord + 2>>,
      <<MaxCoord, MinCoord + 2>>, <<MaxCoord, MinCoord + 1>>,
      <<MaxCoord - 1, MinCoord>>},
     {<<MaxCoord, 0>>, <<MaxCoord, 1>>, <<MinCoord, 0>>},
     {<<0, MaxCoord>>, <<1, MaxCoord>>, <<0, MinCoord>>}}

\* the speeds tried: one and two generations a second
EdgeSpeeds == {1, 2}

InitPackedTick ==
    \E seed \in EdgeSeeds : \E speed \in EdgeSpeeds :
        StateAfterLoad(InnerWidth, InnerHeight, PackedKeysOf(seed), TRUE, speed, 1)

NextPackedTick == \E dt \in FrameSteps : InTime(dt) /\ loopPacked(dt)

SpecPackedTick == InitPackedTick /\ [][NextPackedTick]_vars

\* C17: every tick of the packed-key engine yields the cells of the
\* unbounded-grid B3/S23 successor that lie in the encodable range, so every
\* cell alive after it is within Chebyshev distance 1 of a cell alive before
C17_PackedTickNoWrap ==
    [][TickStep =>
          \E before \in {PackedCellsOf(liveCells)} :
              /\ PackedCellsOf(liveCells') = {c \in Successor(before) : InRange(c)}
              /\ \A c \in PackedCellsOf(liveCells') :
                     \E d \in before : Abs(c[1] - d[1]) <= 1 /\ Abs(c[2] - d[2]) <= 1]_vars

-----------------------------------------------------------------------------
(* SpecBrush: paintCircle of script.js under every brush size from 2 to 50,  *)
(* called by the primary button's mousedown                                  *)

\* the brush sizes above the single cell
DiscSizes == 2..MaxBrush

\* the boards tried: the empty one, and the glider with two far cells, (18,18)
\* in the corner of the largest brush's bounding box around (0,0) and (26,0)
\* beyond it
BrushSeeds == {{}, Glider \cup {<<18, 18>>, <<26, 0>>}}

InitBrush ==
    \E size \in DiscSizes : \E S \in BrushSeeds :
        StateAfterLoad(InnerWidth, InnerHeight, KeysOf(S), FALSE, 1, size)

\* one more event of SpecBrush may be handled
BrushBudget == events < MaxBrushEvents

NextBrush ==
    \/ \E p \in Points : BrushBudget /\ mousedown(PrimaryButton, p[1], p[2])
    \/ BrushBudget /\ mouseup

SpecBrush == InitBrush /\ [][NextBrush]_vars

\* the cells (x, y) with (x - cx)^2 + (y - cy)^2 <= (n / 2)^2, looked for in
\* the square of half-width n around c = (cx, cy)
Disc(c, n) ==
    {d \in (c[1] - n..c[1] + n) \X (c[2] - n..c[2] + n) :
        4 * ((d[1] - c[1]) * (d[1] - c[1]) + (d[2] - c[2]) * (d[2] - c[2])) <= n * n}

\* C12: for brush sizes 2..50 the paintCircle call of a primary mousedown
\* makes exactly the cells of the disc alive in draw mode and dead in erase
\* mode, and every other cell keeps its membership
C12_BrushIsDisc ==
    [][(brushSize \in DiscSizes /\ StrokeStart) =>
          \E disc \in {KeysOf(Disc(Centres(lastOp')[1], brushSize))} :
              liveCells' = IF drawMode' THEN liveCells \cup disc
                           ELSE liveCells \ disc]_vars

\* the largest brush has erased the glider around (0,0); the cell in the corner
\* of its bounding box and the cell beyond the box are still alive
C12_Witness ==
    /\ lastOp.op = "mousedown"
    /\ Centres(lastOp) = <<<<0, 0>>>>
    /\ brushSize = MaxBrush
    /\ ~drawMode
    /\ liveCells = KeysOf({<<18, 18>>, <<26, 0>>})

-----------------------------------------------------------------------------
(* SpecPaused: a board that starts paused, under frames, the play/pause      *)
(* button, the wheel and middle-button drags                                 *)

InitPaused == StateAfterLoad(InnerWidth, InnerHeight, KeysOf(Blinker), FALSE, 1, 1)

\* the clock may advance by dt within SpecPaused and Spec
InSpecTime(dt) == clock + dt <= MaxSpecSeconds * MsPerSecond

NextPaused ==
    \/ \E dt \in FrameSteps : InSpecTime(dt) /\ loop(dt)
    \/ SpecBudget /\ playPauseClick(0)
    \/ \E p \in WheelPoints : \E dy \in WheelDeltas :
           SpecBudget /\ wheel(p[1], p[2], dy)
    \/ \E p \in Points : SpecBudget /\ mousedown(MiddleButton, p[1], p[2])
    \/ \E p \in Points : SpecBudget /\ mousemove(p[1], p[2])
    \/ SpecBudget /\ mouseup

SpecPaused == InitPaused /\ [][NextPaused]_vars

\* C13: while isPlaying is false a frame changes neither liveCells nor
\* lastTickTime (and calls no tick); a wheel event still zooms in or out, and
\* a mousemove of a middle-button drag still moves the offset to the pointer
\* position less the drag's start
C13_PausedFramesDoNothing ==
    [][~isPlaying =>
          /\ lastOp'.op = "loop" =>
                 /\ liveCells' = liveCells
                 /\ lastTickTime' = lastTickTime
                 /\ ticks' = ticks
          /\ lastOp'.op = "wheel" =>
                 /\ lastOp'.arg[3] < 0 => NumLess(scale, scale')
                 /\ lastOp'.arg[3] > 0 => NumLess(scale', scale)
          /\ (lastOp'.op = "mousemove" /\ isDragging) =>
                 /\ offsetX' = NumSub(NumFromInt(lastOp'.arg[1]), dragStartX)
                 /\ offsetY' = NumSub(NumFromInt(lastOp'.arg[2]), dragStartY)]_vars

\* paused since the load: a frame has just run a full second after
\* lastTickTime and the blinker is as it was, while the wheel has zoomed and a
\* drag has moved the offset
C13_Witness ==
    /\ ~isPlaying
    /\ lastOp.op = "loop"
    /\ clock - lastTickTime >= MsPerSecond
    /\ ticks = 0
    /\ liveCells = KeysOf(Blinker)
    /\ scale # NumFromInt(InitialScale)
    /\ offsetX # halfOf(InnerWidth)

-----------------------------------------------------------------------------
(* SpecLoop: loop under several speeds and frame intervals, playing or paused *)

\* milliseconds between one clock reading and the next: a quarter and a half
\* of a second, and three seconds
LoopSteps == {MsPerSecond \div 4, MsPerSecond \div 2, 3 * MsPerSecond}

\* the speeds tried: tick periods of 1000 ms, 333.33.. ms and 1 ms
LoopSpeeds == {1, 3, 1000}

InitLoop ==
    \E speed \in LoopSpeeds : \E playing \in BOOLEAN :
        StateAfterLoad(InnerWidth, InnerHeight, KeysOf(Blinker), playing, speed, 1)

NextLoop ==
    \/ \E dt \in LoopSteps : InTime(dt) /\ loop(dt)
    \/ \E dt \in LoopSteps : InBudget /\ InTime(dt) /\ playPauseClick(dt)

SpecLoop == InitLoop /\ [][NextLoop]_vars

\* the least whole number of milliseconds that is at least 1000 / speed
PeriodCeiling(speed) == (MsPerSecond + speed - 1) \div speed

\* C14: a frame at time t calls tick() exactly when isPlaying holds and
\* t - lastTickTime is at least 1000 / simulationSpeed; it then moves the live
\* set on by one generation, never more, and sets lastTickTime to t;
\* otherwise it leaves the live set and lastTickTime as they are
C14_LoopTicksWhenDue ==
    [][lastOp'.op = "loop" =>
          LET t   == lastOp'.arg[1]
              due == isPlaying /\ t - lastTickTime >= PeriodCeiling(simulationSpeed)
          IN  /\ t = clock'
              /\ due => /\ ticks' = ticks + 1
                        /\ liveCells' = KeysOf(Successor(CellsOf(liveCells)))
                        /\ lastTickTime' = t
              /\ ~due => /\ ticks' = ticks
                         /\ liveCells' = liveCells
                         /\ lastTickTime' = lastTickTime]_vars

\* at speed 1 the first frame, three seconds after the load, has just ticked
\* once: the blinker's row has become its column and lastTickTime is the
\* frame's timestamp
C14_Witness ==
    /\ lastOp.op = "loop"
    /\ lastOp.arg[2]
    /\ simulationSpeed = 1
    /\ ticks = 1
    /\ clock = 3 * MsPerSecond
    /\ lastTickTime = clock
    /\ liveCells = KeysOf(BlinkerTurned)

-----------------------------------------------------------------------------
(* SpecFrames: frames and play/pause clicks, the browser running a pending   *)
(* frame callback whenever one stays pending                                 *)

\* the browser runs a pending frame callback
Frame == \E dt \in FrameSteps : InTime(dt) /\ loop(dt)

NextFrames ==
    \/ Frame
    \/ SpecBudget /\ playPauseClick(0)

SpecFrames == InitLoop /\ [][NextFrames]_vars /\ WF_vars(Frame)

\* the last clock reading within the time explored
Horizon == MaxSeconds * MsPerSecond

\* C15: exactly one frame callback is pending in every state, whether the last
\* frame ticked, skipped its tick or ran while paused; so the browser keeps
\* running frames, up to the end of the time explored
C15_OneFramePending ==
    /\ [](pendingFrames = 1)
    /\ <>(clock + MsPerSecond \div 2 > Horizon)

\* a frame has ticked, a later one has skipped its tick, the board was then
\* paused and a frame has just run: one callback is pending
C15_Witness ==
    /\ pendingFrames = 1
    /\ lastOp.op = "loop"
    /\ ~isPlaying
    /\ ticks >= 1
    /\ clock > lastTickTime

-----------------------------------------------------------------------------
(* SpecEdit: strokes and the clear button on a running glider *)

\* the brush sizes of SpecEdit
EditSizes == {1, 3}

InitEdit ==
    \E size \in EditSizes :
        StateAfterLoad(InnerWidth, InnerHeight, KeysOf(Glider), TRUE, 1, size)

NextEdit ==
    \/ \E dt \in FrameSteps : InSpecTime(dt) /\ loop(dt)
    \/ \E p \in Points : SpecBudget /\ mousedown(PrimaryButton, p[1], p[2])
    \/ \E p \in Points : SpecBudget /\ mousemove(p[1], p[2])
    \/ SpecBudget /\ mouseup
    \/ SpecBudget /\ clearBtnClick

SpecEdit == InitEdit /\ [][NextEdit]_vars

\* C16: every tick replaces the live set, all edits handled before it
\* included, by its B3/S23 successor; every paint handler applies its whole
\* stroke step (the brush at every centre) and the clear handler empties the
\* set, without a tick in between
C16_TicksAndEditsAtomic ==
    [][/\ TickStep => liveCells' = KeysOf(Successor(CellsOf(liveCells)))
       /\ (isDrawing' /\ lastOp'.op \in {"mousedown", "mousemove"}) =>
              \E painted \in {KeysOf(PaintedBy(Centres(lastOp'), brushSize))} :
                  /\ liveCells' = IF drawMode' THEN liveCells \cup painted
                                   ELSE liveCells \ painted
                  /\ ticks' = ticks
       /\ lastOp'.op = "clear" => liveCells' = {} /\ ticks' = ticks]_vars

\* in the middle of a stroke that began by erasing the 3x3 cells around (0,0)
\* from the glider, a frame has just ticked: the live set is the successor of
\* the three cells the erasure left
C16_Witness ==
    /\ isDrawing
    /\ ~drawMode
    /\ brushSize = 3
    /\ lastOp.op = "loop"
    /\ lastOp.arg[2]
    /\ ticks = 1
    /\ liveCells = KeysOf(Successor({<<2, 0>>, <<2, -1>>, <<1, -2>>}))
    /\ liveCells # KeysOf(Successor(Glider))

-----------------------------------------------------------------------------
(* SpecZoom: runs of wheel notches long enough to reach both ends of the     *)
(* scale range (17 notches in from 20, 22 notches out)                       *)

\* e.deltaY of the notches tried, a zero deltaY included
ZoomDeltas == {-100, 0, 100}

ZoomBudget == events < MaxZoomEvents

NextZoom ==
    \E p \in WheelPoints : \E dy \in ZoomDeltas : ZoomBudget /\ wheel(p[1], p[2], dy)

SpecZoom == InitView /\ [][NextZoom]_vars

\* C18: scale is at least 2 and at most 100 in every state
C18_ScaleInRange ==
    /\ ~NumLess(scale, NumFromInt(MinScale))
    /\ ~NumLess(NumFromInt(MaxScale), scale)

\* a notch in has just met the upper end: the product scale * 1.1 of the old
\* scale, which is the new one or more, was cut to 100
C18_Witness ==
    /\ lastOp.op = "wheel"
    /\ lastOp.arg[3] <= 0
    /\ events >= 17
    /\ scale = NumFromInt(MaxScale)

-----------------------------------------------------------------------------
(* SpecBrushField: brush sizes entered in the number field and set with the  *)
(* slider, and the strokes begun under them                                  *)

\* the texts of the number field tried: the emptied field, 0, -3, 7, 51, 999,
\* abc and 2.5
FieldTexts ==
    {<<>>, <<"0">>, <<"-", "3">>, <<"7">>, <<"5", "1">>, <<"9", "9", "9">>,
     <<"a", "b", "c">>, <<"2", ".", "5">>}

\* the values of the slider tried: both ends of its track and the middle
SliderTexts == {<<"1">>, <<"2", "5">>, <<"5", "0">>}

FieldBudget == events < MaxFieldEvents

NextBrushField ==
    \/ \E text \in FieldTexts : FieldBudget /\ brushInputInput(text)
    \/ \E text \in SliderTexts : FieldBudget /\ brushSliderInput(text)
    \/ \E p \in Points : FieldBudget /\ mousedown(PrimaryButton, p[1], p[2])
    \/ FieldBudget /\ mouseup

SpecBrushField == Init /\ [][NextBrushField]_vars

\* C19: brushSize is an integer from 1 to 50 in every state
C19_BrushSizeInRange == brushSize # NaN /\ brushSize \in MinBrush..MaxBrush

-----------------------------------------------------------------------------
(* SpecSpeed: speed options chosen while the blinker runs *)

\* the data-speed texts tried: 1, 10, 1000, 0, -5 and a missing number
SpeedTexts ==
    {<<"1">>, <<"1", "0">>, <<"1", "0", "0", "0">>, <<"0">>, <<"-", "5">>, <<>>}

InitSpeed == StateAfterLoad(InnerWidth, InnerHeight, KeysOf(Blinker), TRUE, 1, 1)

NextSpeed ==
    \/ \E dt \in FrameSteps : InTime(dt) /\ loop(dt)
    \/ \E text \in SpeedTexts : SpecBudget /\ speedOptClick(text)

SpecSpeed == InitSpeed /\ [][NextSpeed]_vars

\* C20: simulationSpeed is a positive integer in every state
C20_SpeedPositive == simulationSpeed # NaN /\ simulationSpeed >= 1

-----------------------------------------------------------------------------
(* SpecPanZoom: middle-button drags with wheel notches between their pointer *)
(* events.  The wheel event carries the position of the pointer, which is    *)
(* where the last mouse event left it; a mousemove reports another position. *)

\* the pointer positions of the drags
PanPoints == {<<1000, 600>>, <<1010, 590>>, <<900, 500>>}

\* the pointer position a mouse or wheel event reports
PointerOf(op) ==
    IF op.op = "mousedown" THEN <<op.arg[2], op.arg[3]>>
    ELSE <<op.arg[1], op.arg[2]>>

PointerEvents == {"mousedown", "mousemove", "wheel"}

NextPanZoom ==
    \/ \E p \in PanPoints : InBudget /\ mousedown(MiddleButton, p[1], p[2])
    \/ \E p \in PanPoints :
           /\ InBudget
           /\ lastOp.op \in PointerEvents => p # PointerOf(lastOp)
           /\ mousemove(p[1], p[2])
    \/ \E dy \in WheelDeltas :
           /\ InBudget
           /\ lastOp.op \in PointerEvents
           /\ wheel(PointerOf(lastOp)[1], PointerOf(lastOp)[2], dy)
    \/ InBudget /\ mouseup

SpecPanZoom == InitView /\ [][NextPanZoom]_vars

\* C21: a mousemove of a middle-button drag adds to the offset it finds the
\* displacement of the pointer since the drag's previous pointer event,
\* whether or not wheel events came between the two
C21_PanAddsDisplacement ==
    [][(isDragging /\ lastOp'.op = "mousemove" /\ lastOp.op \in PointerEvents) =>
          /\ offsetX' = NumAdd(offsetX, NumFromInt(PointerOf(lastOp')[1]
                                                     - PointerOf(lastOp)[1]))
          /\ offsetY' = NumAdd(offsetY, NumFromInt(PointerOf(lastOp')[2]
                                                     - PointerOf(lastOp)[2]))]_vars

-----------------------------------------------------------------------------
(* SpecLine: interpolateLine between every two cells of a grid of cells, as  *)
(* the first mousemove of a stroke with the single-cell brush calls it       *)

\* the coordinates of the cells tried
LineCoords == {-6, -2, -1, 0, 1, 3, 8}
LineCells == LineCoords \X LineCoords

\* the middle of cell c on the screen of the page just loaded
CellPointer(c) ==
    <<InnerWidth \div 2 + InitialScale * c[1] + InitialScale \div 2,
      InnerHeight \div 2 + InitialScale * c[2] + InitialScale \div 2>>

NextLine ==
    \/ \E c \in LineCells :
           /\ lastOp.op = "load"
           /\ mousedown(PrimaryButton, CellPointer(c)[1], CellPointer(c)[2])
    \/ \E c \in LineCells :
           /\ lastOp.op = "mousedown"
           /\ mousemove(CellPointer(c)[1], CellPointer(c)[2])
    \/ lastOp.op = "mousemove" /\ mouseup

SpecLine == Init /\ [][NextLine]_vars

\* the greater of the two distances along the axes
Chebyshev(a, b) ==
    IF Abs(a[1] - b[1]) >= Abs(a[2] - b[2]) THEN Abs(a[1] - b[1]) ELSE Abs(a[2] - b[2])

\* C22: interpolateLine from cell a to cell b paints max(|dx|, |dy|) + 1
\* centres, the first being a and the last b; each advance step brings the
\* centre one nearer to b in Chebyshev distance and never beyond b on either
\* axis; from a cell to itself it paints once
C22_LineEndsAtTarget ==
    [][StrokeStep =>
          LET path == lastOp'.arg[3]
              a    == lastDrawPos
              b    == lastDrawPos'
              n    == Chebyshev(a, b)
          IN  /\ b = <<toGrid(lastOp'.arg[1], offsetX, scale),
                        toGrid(lastOp'.arg[2], offsetY, scale)>>
              /\ Len(path) = n + 1
              /\ path[1] = a
              /\ path[n + 1] = b
              /\ \A i \in 1..n + 1 :
                     /\ Chebyshev(path[i], b) = n - (i - 1)
                     /\ Abs(path[i][1] - a[1]) + Abs(b[1] - path[i][1]) = Abs(b[1] - a[1])
                     /\ Abs(path[i][2] - a[2]) + Abs(b[2] - path[i][2]) = Abs(b[2] - a[2])
              /\ a = b => path = <<a>>]_vars

\* a line of fourteen steps has just been painted from cell (8,-6) to cell
\* (-6,3), and the fifteen centres are alive
C22_Witness ==
    /\ lastOp.op = "mousemove"
    /\ isDrawing
    /\ lastOp.arg[3][1] = <<8, -6>>
    /\ lastDrawPos = <<-6, 3>>
    /\ Len(lastOp.arg[3]) = 15
    /\ Cardinality(liveCells) = 15

-----------------------------------------------------------------------------
(* Ticks after a resume, in SpecLoop *)

\* C23: the clock never runs back; a click that resumes at time t0 makes t0
\* the time from which the next period is counted; a tick happens only in a
\* frame whose timestamp is at least one period (1000 / simulationSpeed ms, at
\* the speed then in force) after the later of the last tick and the last
\* resume, and becomes the time the next period is counted from; a pause and
\* a frame without a tick leave that time alone, so it never moves back and
\* no toggle brings a tick forward
C23_TicksKeepPeriod ==
    [][/\ clock' >= clock
       /\ lastTickTime <= lastTickTime'
       /\ lastTickTime' <= clock'
       /\ (lastOp'.op = "playPause" /\ isPlaying') =>
              lastTickTime' = clock' /\ ticks' = ticks
       /\ (lastOp'.op = "playPause" /\ ~isPlaying') =>
              lastTickTime' = lastTickTime /\ ticks' = ticks
       /\ TickStep =>
              /\ lastOp'.op = "loop"
              /\ isPlaying
              /\ (clock' - lastTickTime) * simulationSpeed >= MsPerSecond
              /\ lastTickTime' = clock'
       /\ (lastOp'.op = "loop" /\ ~TickStep) => lastTickTime' = lastTickTime]_vars

\* the blinker ran at speed 1, was paused and resumed before its first tick,
\* and a frame has just ticked for the first time
C23_Witness ==
    /\ lastOp.op = "loop"
    /\ lastOp.arg[2]
    /\ isPlaying
    /\ simulationSpeed = 1
    /\ events = 2
    /\ ticks = 1
    /\ lastTickTime = clock

-----------------------------------------------------------------------------
(* SpecPack: pairs of cells of the encodable range, the edges among them,    *)
(* packed into liveCells and unpacked and packed again by tick               *)

\* the coordinates tried: both ends of the range, the cells next to them,
\* zero and its neighbours, and both sides of a byte boundary
PackCoords == {MinCoord, MinCoord + 1, -257, -256, -1, 0, 1, 255, 256,
               MaxCoord - 1, MaxCoord}
PackCells == PackCoords \X PackCoords

\* the cells of the pairs
PairCoords == {MinCoord, -1, 0, 256, MaxCoord}
PairCells == PairCoords \X PairCoords

InitPack ==
    \E a \in PairCells : \E b \in PairCells :
        StateAfterLoad(InnerWidth, InnerHeight, PackedKeysOf({a, b}), TRUE, 1, 1)

NextPack == \E dt \in FrameSteps : InTime(dt) /\ loopPacked(dt)

SpecPack == InitPack /\ [][NextPack]_vars

\* key is a signed 32-bit integer: its upper half is a signed 16-bit one
IsInt32(key) == key \div PackSpan \in -PackBias..PackBias - 1

\* C24: for in-range x and y, pack(x, y) is a signed 32-bit integer from
\* which unpackX gives x and unpackY gives y, and cells that differ have keys
\* that differ; the keys of a live set are as many as its cells and each is
\* the key of the cell unpacked from it
C24_PackRoundTrip ==
    /\ \A c \in PackCells :
           /\ InRange(c)
           /\ IsInt32(pack(c[1], c[2]))
           /\ unpackX(pack(c[1], c[2])) = c[1]
           /\ unpackY(pack(c[1], c[2])) = c[2]
    /\ \A c \in PackCells : \A d \in PackCells :
           pack(c[1], c[2]) = pack(d[1], d[2]) => c = d
    /\ \A key \in liveCells :
           /\ InRange(<<unpackX(key), unpackY(key)>>)
           /\ pack(unpackX(key), unpackY(key)) = key
    /\ Cardinality(PackedCellsOf(liveCells)) = Cardinality(liveCells)

\* the two opposite corners of the range are alive, under the keys -65536 and
\* 65535
C24_Witness ==
    /\ ticks = 0
    /\ liveCells = {-65536, 65535}
    /\ liveCells = PackedKeysOf({<<MaxCoord, MinCoord>>, <<MinCoord, MaxCoord>>})
    /\ PackedCellsOf(liveCells) = {<<MaxCoord, MinCoord>>, <<MinCoord, MaxCoord>>}

-----------------------------------------------------------------------------
(* The stroke position, in Spec *)

\* C25: isDrawing holds exactly when lastDrawPos is not null, so a mousemove
\* that draws always finds a last position and calls interpolateLine
C25_DrawingHasLastPos == isDrawing <=> lastDrawPos # NoPos

\* a mousemove has just drawn a line of several centres from the last position
C25_Witness ==
    /\ isDrawing
    /\ ~isDragging
    /\ lastOp.op = "mousemove"
    /\ Len(lastOp.arg[3]) >= 2
    /\ lastDrawPos = lastOp.arg[3][Len(lastOp.arg[3])]

-----------------------------------------------------------------------------
(* Pan before draw, in Spec *)

\* C26: a mousemove while isDragging holds sets the offset from the pointer
\* and the drag start and changes neither liveCells nor lastDrawPos, whether
\* or not isDrawing holds too; a mousemove that changes liveCells or
\* lastDrawPos finds isDragging false and isDrawing true
C26_PanBeforeDraw ==
    [][lastOp'.op = "mousemove" =>
          /\ isDragging =>
                 /\ liveCells' = liveCells
                 /\ lastDrawPos' = lastDrawPos
                 /\ offsetX' = NumSub(NumFromInt(lastOp'.arg[1]), dragStartX)
                 /\ offsetY' = NumSub(NumFromInt(lastOp'.arg[2]), dragStartY)
                 /\ lastOp'.arg[3] = <<>>
          /\ (liveCells' # liveCells \/ lastDrawPos' # lastDrawPos \/ lastOp'.arg[3] # <<>>)
                 => ~isDragging /\ isDrawing
          /\ ~isDragging => offsetX' = offsetX /\ offsetY' = offsetY]_vars

\* the middle button went down at (960, 540), then the primary button, which
\* painted cell (0,0); the mousemove to (1010, 530) has moved the offset there
\* and painted nothing
C26_Witness ==
    /\ isDragging
    /\ isDrawing
    /\ lastOp.op = "mousemove"
    /\ offsetX = NumFromInt(1010)
    /\ offsetY = NumFromInt(530)
    /\ liveCells = {Key(0, 0)}
    /\ lastDrawPos = <<0, 0>>

-----------------------------------------------------------------------------
(* The auto-seed, in Spec *)

\* a step of the start button's timer callback
SeedStep == seedTimer' = seedTimer - 1

\* C27: the timer callback turns an empty live set into the five glider
\* cells and leaves a live set that is not empty as it is, whatever was
\* painted, cleared or ticked while the timer ran; the click that starts the
\* timer does not touch the live set
C27_SeedOnlyWhenEmpty ==
    [][/\ SeedStep => liveCells' = IF liveCells = {} THEN KeysOf(Glider) ELSE liveCells
       /\ lastOp'.op = "startBtn" => liveCells' = liveCells /\ seedTimer' = seedTimer + 1]_vars

\* cell (0,0) was painted while the timer ran, and the callback has left the
\* set of that one cell alone
C27_Witness ==
    /\ lastOp.op = "seedTimeout"
    /\ ~lastOp.arg[1]
    /\ seedTimer = 0
    /\ liveCells = {Key(0, 0)}

-----------------------------------------------------------------------------
(* What each handler leaves alone, in Spec *)

\* the handlers that do not edit the board
ViewAndSettingOps == {"wheel", "mouseup", "playPause", "speed", "brushSlider", "brushInput"}

\* a step of a handler that painted: it passed centres to paintCircle
PaintStep == lastOp'.op \in {"mousedown", "mousemove"} /\ Centres(lastOp') # <<>>

\* C28: wheel, mouseup, play/pause, speed and brush-size events, the middle
\* button's mousedown and the mousemove of a drag leave liveCells unchanged;
\* a tick and every painting handler leave scale, offsetX and offsetY
\* unchanged; a tick leaves drawMode, brushSize, lastDrawPos, isDrawing and
\* isPlaying unchanged
C28_FrameConditions ==
    [][/\ lastOp'.op \in ViewAndSettingOps => liveCells' = liveCells
       /\ (lastOp'.op = "mousedown" /\ lastOp'.arg[1] = MiddleButton) =>
              liveCells' = liveCells
       /\ (lastOp'.op = "mousemove" /\ isDragging) => liveCells' = liveCells
       /\ (TickStep \/ PaintStep) =>
              scale' = scale /\ offsetX' = offsetX /\ offsetY' = offsetY
       /\ TickStep =>
              /\ drawMode' = drawMode
              /\ brushSize' = brushSize
              /\ lastDrawPos' = lastDrawPos
              /\ isDrawing' = isDrawing
              /\ isPlaying' = isPlaying]_vars

\* a tick has just run in the middle of a stroke on the seeded, running
\* board: the stroke and the view are as they were
C28_Witness ==
    /\ lastOp.op = "loop"
    /\ lastOp.arg[2]
    /\ ticks = 1
    /\ isDrawing
    /\ lastDrawPos # NoPos
    /\ isPlaying
    /\ liveCells # {}
    /\ scale = NumFromInt(InitialScale)

-----------------------------------------------------------------------------
(* The engine of unnamed/part_001: its liveCells holds the packed keys of    *)
(* paintCircle and tick (part_001:240-256, 65-92, the code of part_000), and *)
(* its draw reads every key with key.indexOf(',') (part_001:186-197)         *)

\* draw() returns: the loop over liveCells calls key.indexOf, which a Number
\* does not have, so its first iteration throws a TypeError
drawCompletes(live) == live = {}

\* loop of part_001:223-234.  An exception thrown by draw() leaves tick() and
\* loop() at once: liveCells is already the next generation, but
\* lastTickTime = timestamp and requestAnimationFrame(loop) are not reached
loop001(dt) ==
    LET timestamp == clock + dt
        due == isPlaying /\ tickDue(timestamp, lastTickTime, simulationSpeed)
    IN  \E live2 \in {IF due THEN nextGenPacked(liveCells) ELSE liveCells} :
        \E threw \in {IF isPlaying THEN due /\ ~drawCompletes(live2)
                                   ELSE ~drawCompletes(live2)} :
            /\ pendingFrames > 0
            /\ clock' = timestamp
            /\ liveCells' = live2
            /\ lastTickTime' = IF due /\ ~threw THEN timestamp ELSE lastTickTime
            /\ ticks' = IF due THEN ticks + 1 ELSE ticks
            /\ lastOp' = Op("loop", <<timestamp, due, threw>>)
            /\ pendingFrames' = IF threw THEN pendingFrames - 1
                                ELSE (pendingFrames - 1) + 1
            /\ UNCHANGED <<isPlaying, simulationSpeed, scale, offsetX, offsetY,
                           isDragging, dragStartX, dragStartY, isDrawing, drawMode,
                           brushSize, lastDrawPos, seedTimer, introShown, events>>

Init001 ==
    \E playing \in BOOLEAN :
        StateAfterLoad(InnerWidth, InnerHeight, {}, playing, 1, 1)

Next001 ==
    \/ \E dt \in FrameSteps : InTime(dt) /\ loop001(dt)
    \/ \E p \in Points : SpecBudget /\ mousedownPacked(PrimaryButton, p[1], p[2])
    \/ \E p \in Points : SpecBudget /\ mousemovePacked(p[1], p[2])
    \/ SpecBudget /\ mouseup

Spec001 == Init001 /\ [][Next001]_vars

\* C29: every frame of the part_001 engine finishes its draw, whatever keys
\* paintCircle and tick have stored, and schedules the next frame
C29_DrawReadsStoredKeys ==
    [][lastOp'.op = "loop" => ~lastOp'.arg[3] /\ pendingFrames' = 1]_vars

-----------------------------------------------------------------------------
(* The sign of the keys, in SpecPack *)

\* C30: pack(x, y) is an unsigned 32-bit integer for in-range x and y: no key
\* of a live set is negative
C30_PackIsUnsigned == \A key \in liveCells : key >= 0

====
